---- MODULE Spec2Model ----
(***************************************************************************)
(* A model of CortexPropel's task-tree reconciliation core:                *)
(*   src/src/task_manager.py  (TaskManager: operation list, reset,         *)
(*                             identity resolver)                          *)
(*   src/src/database.py      (TaskDatabase: the relational mirror)        *)
(* and of the status rollup of                                             *)
(*   src/src/cortex_propel/utils/task_management.py  (TaskStatusUpdater)   *)
(*   src/src/cortex_propel/models/task.py            (Task)                *)
(*                                                                         *)
(* Python dicts are records that carry every key the code reads; a key     *)
(* that is absent holds Missing (strings), NoTime (timestamps) or NoTags   *)
(* (the tags list).  Python None / SQL NULL is None.  A node without a     *)
(* "subtasks" key is a node with an empty subtasks list (the code reads    *)
(* it with .get("subtasks", []) everywhere).  Field values supplied by the *)
(* LLM are strings.  Of the mirror's columns the model keeps id, title,    *)
(* description, status, estimated_hours, tags, created_at and updated_at;  *)
(* the other extension columns are merged by the same                      *)
(* task_data.get(column, existing[column]) pattern as estimated_hours, and *)
(* json_data is a serialized copy of the node that no operation reads.     *)
(* datetime.now() is sampled once per top-level call (the variable now).   *)
(***************************************************************************)
EXTENDS Integers, Sequences, FiniteSets, TLC

VARIABLES
    tree,       \* the persisted task tree (the JSON file)
    db,         \* the mirror: task id -> row of task_metadata
    results,    \* the list apply_operations returned to the last caller
    lastCall,   \* the last top-level call, "none" before the first
    now,        \* the clock datetime.now() reads
    nextUuid,   \* how many UUIDs uuid.uuid4() has generated
    resolver,   \* _assign_uuids_to_new_tasks, while it is the last call but for the
                \* save of its result: its input, its output, id_mapping
    llm,        \* LLMClient.process_task_input, while it is the last call: the
                \* response text it read and the dict it returned
    taskFiles,  \* the task files of cortex_propel's FileManager: task id -> Task
    updated_tasks,  \* the ids of the updated_tasks list update_task_status returned last
    store,      \* self.tasks of models.task.TaskManager: task id -> Task
    storeCount, \* how many tasks create_task has created
    procs,      \* the processes running process_user_input step by step: where
                \* each is, the tree it loaded (current_tree), its results
    fileState,  \* the tree file: "ok" (it holds tree), "missing" or "corrupt"
    io,         \* the last call that met the disk: the writes that failed, the
                \* tree load_task_tree returned, whether the call returned or raised
    task_queue, \* TaskScheduler.task_queue: the heap of scheduled tasks
    running_tasks, \* TaskScheduler.running_tasks: the ids of the started tasks
    threads     \* the threads inside TaskScheduler: where each is, the arguments
                \* of its call, what its last call returned

\* The state of TaskManager (task tree and mirror) and the state of the task
\* files TaskStatusUpdater works on; the clock and lastCall serve both.
treeVars == <<tree, db, results, nextUuid, resolver, llm>>
storeVars == <<taskFiles, updated_tasks>>
indexVars == <<store, storeCount>>
raceVars == <<procs>>
ioVars == <<fileState, io>>
schedVars == <<task_queue, running_tasks, threads>>

\* What the calls of each component leave alone.
notTree == <<storeVars, indexVars, raceVars, ioVars, schedVars>>
notRollup == <<treeVars, indexVars, raceVars, ioVars, schedVars>>
notIndex == <<treeVars, storeVars, raceVars, ioVars, schedVars>>
notRace == <<storeVars, indexVars, ioVars, schedVars>>
notFile == <<storeVars, indexVars, raceVars, schedVars>>
notSched == <<treeVars, lastCall, now, storeVars, indexVars, raceVars, ioVars>>

vars == <<tree, db, results, lastCall, now, nextUuid, resolver, llm, taskFiles, updated_tasks,
          store, storeCount, procs, fileState, io, task_queue, running_tasks, threads>>

----------------------------------------------------------------------------
(* Bounds of the model *)

MaxUuid == 3        \* uuid4() calls in one behaviour
MaxClock == 3       \* top-level calls in one behaviour
MaxOps == 2         \* operations in one LLM response

----------------------------------------------------------------------------
(* Values *)

Missing == "<missing>"      \* an absent dict key
None == "<None>"            \* Python None, JSON null, SQL NULL
NoTime == 0                 \* an absent created_at / updated_at key
NoTags == <<>>              \* an absent tags key; <<l>> is the list l

\* The values uuid.uuid4() returns, in the order it returns them.
UuidPool == <<"u1", "u2", "u3", "u4", "u5", "u6", "u7", "u8", "u9", "u10", "u11", "u12">>

Uuid4(n) == UuidPool[n + 1]

\* A UUID-shaped id the LLM made up, and a slug the LLM made up.
LlmUuid == "uuid-llm"
LlmSlug == "task-1"

\* The strings uuid.UUID() parses.
UuidShaped == {UuidPool[i] : i \in 1..Len(UuidPool)} \cup {LlmUuid}

\* Python truthiness of an optional string.
Truthy(x) == x \notin {Missing, None, ""}

\* dict.get(key, default)
Get(x, default) == IF x = Missing THEN default ELSE x

\* a or b
Or(a, b) == IF Truthy(a) THEN a ELSE b

\* str.lower() on the operation names the model feeds it.
Lower(s) == IF s = "ADD" THEN "add" ELSE s

\* json.dumps / json.loads of the tags column: a TEXT that is NULL or holds a list.
JsonDumps(l) == [null |-> FALSE, json |-> l]
JsonLoads(t) == t.json
NullText == [null |-> TRUE, json |-> <<>>]

----------------------------------------------------------------------------
(* Dicts: tree nodes, LLM task objects, metadata, rows *)

Dict(id, title, description, status, hours, tags, created, updated) ==
    [id |-> id, title |-> title, description |-> description, status |-> status,
     estimated_hours |-> hours, tags |-> tags,
     created_at |-> created, updated_at |-> updated]

EmptyDict == Dict(Missing, Missing, Missing, Missing, Missing, NoTags, NoTime, NoTime)

\* A tree node read as a dict (the keys a node of the tree carries).
NodeDict(node) ==
    Dict(node.id, node.title, node.description, node.status, Missing, NoTags,
         node.created_at, node.updated_at)

\* The task object of an LLM operation read as a dict.
TaskDict(task) ==
    Dict(task.id, task.title, task.description, task.status, Missing, NoTags,
         task.created_at, NoTime)

InitializeTaskTree(t) ==
    [id |-> "root", title |-> "Root Task", description |-> "Main project task",
     status |-> "pending", created_at |-> t, updated_at |-> t, subtasks |-> <<>>]

----------------------------------------------------------------------------
(* Walking the tree *)

NoPath == <<0>>

RECURSIVE FindPath(_, _), FindPathIn(_, _, _)
\* The path (child indices from the root) of the first node with this id in
\* depth-first order, the order _find_task_by_id and _find_parent_of_task share.
FindPath(node, task_id) ==
    IF node.id = task_id THEN <<>>
    ELSE FindPathIn(node.subtasks, 1, task_id)

FindPathIn(subs, i, task_id) ==
    IF i > Len(subs) THEN NoPath
    ELSE LET r == FindPath(subs[i], task_id)
         IN  IF r # NoPath THEN <<i>> \o r
             ELSE FindPathIn(subs, i + 1, task_id)

RECURSIVE NodeAt(_, _)
NodeAt(node, path) ==
    IF path = <<>> THEN node
    ELSE NodeAt(node.subtasks[Head(path)], Tail(path))

RECURSIVE ReplaceAt(_, _, _)
ReplaceAt(node, path, new) ==
    IF path = <<>> THEN new
    ELSE [node EXCEPT !.subtasks[Head(path)] = ReplaceAt(@, Tail(path), new)]

Front(s) == SubSeq(s, 1, Len(s) - 1)

RECURSIVE AllIdsSeq(_), AllIdsIn(_, _)
\* Every id of a subtree, depth-first, the node's own first.
AllIdsSeq(node) == <<node.id>> \o AllIdsIn(node.subtasks, 1)

AllIdsIn(subs, i) ==
    IF i > Len(subs) THEN <<>>
    ELSE AllIdsSeq(subs[i]) \o AllIdsIn(subs, i + 1)

\* A faulty _collect_all_task_ids that does not descend: the node's own id only.
CollectOwnId(node) == SelectSeq(<<node.id>>, Truthy)

\* TaskManager._collect_all_task_ids
CollectAllTaskIds(node) == SelectSeq(AllIdsSeq(node), Truthy)

RECURSIVE AllNodesSeq(_), AllNodesIn(_, _)
AllNodesSeq(node) == <<node>> \o AllNodesIn(node.subtasks, 1)

AllNodesIn(subs, i) ==
    IF i > Len(subs) THEN <<>>
    ELSE AllNodesSeq(subs[i]) \o AllNodesIn(subs, i + 1)

Range(s) == {s[i] : i \in 1..Len(s)}

\* _extract_all_task_ids: the ids of the nodes that have an "id" key, "root" left out.
ExtractAllTaskIds(t) == {id \in Range(AllIdsSeq(t)) : id # Missing /\ id # "root"}

----------------------------------------------------------------------------
(* The mirror *)

EmptyDb == [x \in {} |-> EmptyDict]

GetAllIds(d) == DOMAIN d

DeleteRow(d, task_id) == [x \in (DOMAIN d) \ {task_id} |-> d[x]]

PutRow(d, row) ==
    [x \in (DOMAIN d) \cup {row.id} |-> IF x = row.id THEN row ELSE d[x]]

\* create_or_update_task, the row exists: the merged row.
MergeRow(task_data, ex, key, t) ==
    [id |-> key,
     title |-> Get(task_data.title, ex.title),
     description |-> Get(task_data.description, ex.description),
     status |-> Get(task_data.status, ex.status),
     estimated_hours |-> Get(task_data.estimated_hours, ex.estimated_hours),
     tags |-> JsonDumps(IF task_data.tags = NoTags
                        THEN JsonLoads(IF ex.tags.null THEN JsonDumps(<<>>) ELSE ex.tags)
                        ELSE task_data.tags[1]),
     created_at |-> ex.created_at,
     updated_at |-> t]

\* create_or_update_task, there is no row: the new row.
NewRow(task_data, json_data, t) ==
    [id |-> Or(task_data.id, Get(json_data.id, "")),
     title |-> Or(task_data.title, Get(json_data.title, "")),
     description |-> Or(task_data.description, Get(json_data.description, "")),
     status |-> Or(task_data.status, Get(json_data.status, "pending")),
     estimated_hours |-> Get(task_data.estimated_hours, None),
     tags |-> JsonDumps(IF task_data.tags = NoTags THEN <<>> ELSE task_data.tags[1]),
     created_at |-> IF task_data.created_at # NoTime THEN task_data.created_at
                    ELSE IF json_data.created_at # NoTime THEN json_data.created_at
                    ELSE t,
     updated_at |-> IF task_data.updated_at # NoTime THEN task_data.updated_at ELSE t]

\* TaskDatabase.create_or_update_task
CreateOrUpdateTask(d, task_data, json_data, t) ==
    LET hasId == Truthy(task_data.id) \/ Truthy(json_data.id)
        key == Or(task_data.id, json_data.id)
    IN  IF hasId /\ key \in DOMAIN d
        THEN PutRow(d, MergeRow(task_data, d[key], key, t))
        ELSE PutRow(d, NewRow(task_data, json_data, t))

\* TaskDatabase.get_task: the row as a dict, its tags parsed.
GetTask(d, task_id) ==
    LET r == d[task_id]
    IN  Dict(r.id, r.title, r.description, r.status, r.estimated_hours,
             <<IF r.tags.null THEN <<>> ELSE JsonLoads(r.tags)>>,
             r.created_at, r.updated_at)

\* extract_tasks of sync_from_task_tree: every node but a childless "root".
ExtractTasks(t) ==
    SelectSeq(AllNodesSeq(t), LAMBDA n : n.id # "root" \/ n.subtasks # <<>>)

RECURSIVE SyncRows(_, _, _, _)
SyncRows(d, tasks, i, t) ==
    IF i > Len(tasks) THEN d
    ELSE SyncRows(CreateOrUpdateTask(d, EmptyDict, NodeDict(tasks[i]), t), tasks, i + 1, t)

\* TaskDatabase.sync_from_task_tree
SyncFromTaskTree(d, t, clock) == SyncRows(d, ExtractTasks(t), 1, clock)

----------------------------------------------------------------------------
(* The operation list: TaskManager._add_task, _update_task, _delete_task *)

\* What a handler hands back: the tree and the mirror it left, the UUIDs used,
\* and its result dict.
Handled(tr, d, n, ok, err, task_id, cnt) ==
    [tree |-> tr, db |-> d, next |-> n,
     result |-> [success |-> ok, error |-> err, task_id |-> task_id,
                 deleted_count |-> cnt, updated_fields |-> <<>>]]

\* A faulty _add_task that keeps the id the LLM put in the task object.
AddTaskKeepsId(tr, d, n, parent_id, task_data, t) ==
    LET new_id == IF Truthy(task_data.id) THEN task_data.id ELSE Uuid4(n)
        new_task == [id |-> new_id,
                     title |-> Get(task_data.title, "Untitled"),
                     description |-> Get(task_data.description, ""),
                     status |-> Get(task_data.status, "pending"),
                     created_at |-> t, updated_at |-> t, subtasks |-> <<>>]
        p == FindPath(tr, parent_id)
    IN  IF p = NoPath
        THEN Handled(tr, d, n, FALSE, "Parent task not found", Missing, 0)
        ELSE LET parent == NodeAt(tr, p)
                 grown == [parent EXCEPT !.subtasks = Append(@, new_task)]
             IN  Handled(ReplaceAt(tr, p, grown),
                         CreateOrUpdateTask(d, NodeDict(new_task), NodeDict(new_task), t),
                         n + 1, TRUE, "", new_id, 0)

\* A faulty _add_task that writes the mirror row before it looks for the parent.
AddTaskWritesFirst(tr, d, n, parent_id, task_data, t) ==
    LET new_id == Uuid4(n)
        new_task == [id |-> new_id,
                     title |-> Get(task_data.title, "Untitled"),
                     description |-> Get(task_data.description, ""),
                     status |-> Get(task_data.status, "pending"),
                     created_at |-> t, updated_at |-> t, subtasks |-> <<>>]
        written == CreateOrUpdateTask(d, NodeDict(new_task), NodeDict(new_task), t)
        p == FindPath(tr, parent_id)
    IN  IF p = NoPath
        THEN Handled(tr, written, n + 1, FALSE, "Parent task not found", Missing, 0)
        ELSE LET parent == NodeAt(tr, p)
                 grown == [parent EXCEPT !.subtasks = Append(@, new_task)]
             IN  Handled(ReplaceAt(tr, p, grown), written, n + 1, TRUE, "", new_id, 0)

\* TaskManager._add_task
AddTask(tr, d, n, parent_id, task_data, t) ==
    LET new_id == Uuid4(n)
        new_task == [id |-> new_id,
                     title |-> Get(task_data.title, "Untitled"),
                     description |-> Get(task_data.description, ""),
                     status |-> Get(task_data.status, "pending"),
                     created_at |-> t, updated_at |-> t, subtasks |-> <<>>]
        p == FindPath(tr, parent_id)
    IN  IF p = NoPath
        THEN Handled(tr, d, n, FALSE, "Parent task not found", Missing, 0)
        ELSE LET parent == NodeAt(tr, p)
                 grown == [parent EXCEPT !.subtasks = Append(@, new_task)]
             IN  Handled(ReplaceAt(tr, p, grown),
                         CreateOrUpdateTask(d, NodeDict(new_task), NodeDict(new_task), t),
                         n + 1, TRUE, "", new_id, 0)

\* A faulty field list that lets an update overwrite created_at and subtasks.
EveryField == <<"title", "description", "status", "created_at", "subtasks">>

\* The fields _update_task copies from the task object.
UpdatableFields == <<"title", "description", "status">>

\* Whether the task object carries the key.
Carries(task_data, f) ==
    IF f = "created_at" THEN task_data.created_at # NoTime
    ELSE IF f = "subtasks" THEN task_data.subtasks # <<>>
    ELSE task_data[f] # Missing

\* The value the task object carries under the key.
Carried(task_data, f) ==
    IF f = "subtasks" THEN task_data.subtasks[1] ELSE task_data[f]

\* TaskManager._update_task
UpdateTask(tr, d, n, task_data, t) ==
    IF ~Truthy(task_data.id)
    THEN Handled(tr, d, n, FALSE, "Task ID is required for update", Missing, 0)
    ELSE LET p == FindPath(tr, task_data.id)
         IN  IF p = NoPath
             THEN Handled(tr, d, n, FALSE, "Task not found", Missing, 0)
             ELSE LET task == NodeAt(tr, p)
                      updated_fields ==
                          SelectSeq(UpdatableFields, LAMBDA f : Carries(task_data, f))
                      copied == [f \in DOMAIN task |->
                                    IF f \in Range(updated_fields)
                                    THEN Carried(task_data, f) ELSE task[f]]
                      stamped == [copied EXCEPT !.updated_at = t]
                 IN  IF updated_fields # <<>>
                     THEN [Handled(ReplaceAt(tr, p, stamped),
                                   CreateOrUpdateTask(d, TaskDict(task_data),
                                                      NodeDict(stamped), t),
                                   n, TRUE, "", task_data.id, 0)
                             EXCEPT !.result.updated_fields = updated_fields]
                     ELSE Handled(tr, d, n, TRUE, "", task_data.id, 0)

RECURSIVE DeleteRows(_, _, _)
DeleteRows(d, ids, i) ==
    IF i > Len(ids) THEN d ELSE DeleteRows(DeleteRow(d, ids[i]), ids, i + 1)

\* A faulty _delete_task without the guard on "root".
DeleteTaskUnguarded(tr, d, n, task_id) ==
    IF ~Truthy(task_id)
    THEN Handled(tr, d, n, FALSE, "Task ID is required for delete", Missing, 0)
    ELSE LET p == FindPath(tr, task_id)
         IN  IF p = NoPath \/ p = <<>>
             THEN Handled(tr, d, n, FALSE, "Task not found", Missing, 0)
             ELSE LET parent == NodeAt(tr, Front(p))
                      ids_to_delete == CollectAllTaskIds(NodeAt(tr, p))
                      pruned == [parent EXCEPT !.subtasks =
                                    SelectSeq(@, LAMBDA c : c.id # task_id)]
                  IN  Handled(ReplaceAt(tr, Front(p), pruned),
                              DeleteRows(d, ids_to_delete, 1),
                              n, TRUE, "", task_id, Len(ids_to_delete))

\* TaskManager._delete_task
DeleteTask(tr, d, n, task_id) ==
    IF ~Truthy(task_id)
    THEN Handled(tr, d, n, FALSE, "Task ID is required for delete", Missing, 0)
    ELSE IF task_id = "root"
    THEN Handled(tr, d, n, FALSE, "Cannot delete root task", Missing, 0)
    ELSE LET p == FindPath(tr, task_id)
         IN  IF p = NoPath \/ p = <<>>
             THEN Handled(tr, d, n, FALSE, "Task not found", Missing, 0)
             ELSE LET parent == NodeAt(tr, Front(p))
                      ids_to_delete == CollectAllTaskIds(NodeAt(tr, p))
                      pruned == [parent EXCEPT !.subtasks =
                                    SelectSeq(@, LAMBDA c : c.id # task_id)]
                  IN  Handled(ReplaceAt(tr, Front(p), pruned),
                              DeleteRows(d, ids_to_delete, 1),
                              n, TRUE, "", task_id, Len(ids_to_delete))

\* One turn of the loop of apply_operations.  acc.raised: an exception left the loop.
ApplyOne(acc, op, t) ==
    IF op.operation = None
    THEN [acc EXCEPT !.raised = TRUE]
    ELSE LET op_type == Lower(Get(op.operation, ""))
             parent_id == Get(op.parent_id, "root")
             caught == Handled(acc.tree, acc.db, acc.next, FALSE, "exception", Missing, 0)
             h == IF op_type \in {"add", "update", "delete"} /\ ~op.task.is_dict
                  THEN caught
                  ELSE IF op_type = "add"
                  THEN AddTask(acc.tree, acc.db, acc.next, parent_id, op.task, t)
                  ELSE IF op_type = "update"
                  THEN UpdateTask(acc.tree, acc.db, acc.next, op.task, t)
                  ELSE IF op_type = "delete"
                  THEN DeleteTask(acc.tree, acc.db, acc.next, Get(op.task.id, None))
                  ELSE Handled(acc.tree, acc.db, acc.next, FALSE, "Unknown operation",
                               Missing, 0)
         IN  [tree |-> h.tree, db |-> h.db, next |-> h.next, raised |-> FALSE,
              results |-> Append(acc.results,
                                 [operation |-> op_type] @@ h.result)]

RECURSIVE ApplyFrom(_, _, _, _)
ApplyFrom(acc, operations, i, t) ==
    IF i > Len(operations) \/ acc.raised THEN acc
    ELSE ApplyFrom(ApplyOne(acc, operations[i], t), operations, i + 1, t)

\* TaskManager.apply_operations
ApplyOperations(tr, d, n, operations, t) ==
    ApplyFrom([tree |-> tr, db |-> d, next |-> n, raised |-> FALSE, results |-> <<>>],
              operations, 1, t)

----------------------------------------------------------------------------
(* The identity resolver: TaskManager._assign_uuids_to_new_tasks *)

\* TaskManager._is_valid_uuid
IsValidUuid(task_id) ==
    IF ~Truthy(task_id) \/ task_id = "root" THEN TRUE
    ELSE task_id \in UuidShaped

\* TaskManager._get_existing_task_ids_from_db
GetExistingTaskIdsFromDb(d) == GetAllIds(d) \ {"root"}

\* A faulty _identify_new_tasks that asks the tree alone which ids are known.
IdentifyNewTasksTreeOnly(current_tree, new_tree, d) ==
    LET new_ids == ExtractAllTaskIds(new_tree)
    IN  (new_ids \ ExtractAllTaskIds(current_tree))
        \cup {task_id \in new_ids : ~IsValidUuid(task_id)}

\* TaskManager._identify_new_tasks
IdentifyNewTasks(current_tree, new_tree, d) ==
    LET current_ids == ExtractAllTaskIds(current_tree)
        db_ids == GetExistingTaskIdsFromDb(d)
        all_existing_ids == current_ids \cup db_ids
        new_ids == ExtractAllTaskIds(new_tree)
        new_task_ids == new_ids \ all_existing_ids
        non_uuid_ids == {task_id \in new_ids : ~IsValidUuid(task_id)}
    IN  new_task_ids \cup non_uuid_ids

\* id_mapping[old] = new on a dict kept as a sequence of <<old, new>> in
\* insertion order: a key that is there keeps its place.
SetMapping(m, old, new) ==
    IF \E i \in 1..Len(m) : m[i][1] = old
    THEN [i \in 1..Len(m) |-> IF m[i][1] = old THEN <<old, new>> ELSE m[i]]
    ELSE Append(m, <<old, new>>)

\* Whether _process_node gives the node a new UUID.
NeedsNewUuid(task_id, new_task_ids) ==
    /\ Truthy(task_id)
    /\ task_id # "root"
    /\ (task_id \in new_task_ids \/ ~IsValidUuid(task_id))

RECURSIVE ProcessNode(_, _, _), ProcessSubtasks(_, _, _, _)
\* _process_node; acc = [next, mapping]: the UUIDs used and id_mapping so far.
ProcessNode(node, new_task_ids, acc) ==
    LET replace == NeedsNewUuid(node.id, new_task_ids)
        new_uuid == Uuid4(acc.next)
        acc1 == IF replace
                THEN [next |-> acc.next + 1,
                      mapping |-> SetMapping(acc.mapping, node.id, new_uuid)]
                ELSE acc
        subs == ProcessSubtasks(node.subtasks, 1, new_task_ids, acc1)
    IN  [node |-> [node EXCEPT !.id = IF replace THEN new_uuid ELSE @,
                               !.subtasks = subs.nodes],
         acc |-> subs.acc]

ProcessSubtasks(subs, i, new_task_ids, acc) ==
    IF i > Len(subs) THEN [nodes |-> <<>>, acc |-> acc]
    ELSE LET first == ProcessNode(subs[i], new_task_ids, acc)
             rest == ProcessSubtasks(subs, i + 1, new_task_ids, first.acc)
         IN  [nodes |-> <<first.node>> \o rest.nodes, acc |-> rest.acc]

\* A faulty turn that writes the row under the new id and leaves the old one.
CopyRow(d, old_id, new_id, t) ==
    IF old_id \in DOMAIN d
    THEN CreateOrUpdateTask(d, [GetTask(d, old_id) EXCEPT !.id = new_id], EmptyDict, t)
    ELSE d

\* One turn of the loop of _handle_id_changes_in_database.
MoveRow(d, old_id, new_id, t) ==
    IF old_id \in DOMAIN d
    THEN LET existing_task == [GetTask(d, old_id) EXCEPT !.id = new_id]
         IN  DeleteRow(CreateOrUpdateTask(d, existing_task, EmptyDict, t), old_id)
    ELSE d

RECURSIVE HandleFrom(_, _, _, _)
HandleFrom(d, id_mapping, i, t) ==
    IF i > Len(id_mapping) THEN d
    ELSE HandleFrom(MoveRow(d, id_mapping[i][1], id_mapping[i][2], t), id_mapping, i + 1, t)

\* TaskManager._handle_id_changes_in_database
HandleIdChangesInDatabase(d, id_mapping, t) == HandleFrom(d, id_mapping, 1, t)

\* TaskManager._assign_uuids_to_new_tasks(task_tree), new_task_ids left None.
AssignUuidsToNewTasks(current_tree, d, n, task_tree, t) ==
    LET new_task_ids == IdentifyNewTasks(current_tree, task_tree, d)
        r == ProcessNode(task_tree, new_task_ids, [next |-> n, mapping |-> <<>>])
    IN  [result |-> r.node,
         id_mapping |-> r.acc.mapping,
         next |-> r.acc.next,
         db |-> IF r.acc.mapping # <<>>
                THEN HandleIdChangesInDatabase(d, r.acc.mapping, t) ELSE d]

----------------------------------------------------------------------------
(* What the LLM may answer *)

Task(id, title, description, status, created, subtasks) ==
    [is_dict |-> TRUE, id |-> id, title |-> title, description |-> description,
     status |-> status, created_at |-> created, subtasks |-> subtasks]

\* The field sets of a task object (its id apart).
TaskFields ==
    { Task(Missing, Missing, Missing, Missing, NoTime, <<>>),
      Task(Missing, "A", Missing, Missing, NoTime, <<>>),
      Task(Missing, "B", "d", Missing, NoTime, <<>>),
      Task(Missing, Missing, Missing, "completed", 1, << <<>> >>) }

NullTask == [Task(Missing, Missing, Missing, Missing, NoTime, <<>>) EXCEPT !.is_dict = FALSE]

\* The ids an LLM that has read the tree may name: those of the tree, one that
\* is in no tree, and none at all.
NamedIds(tr) == Range(AllIdsSeq(tr)) \cup {"ghost", Missing}

Op(operation, parent_id, task) ==
    [operation |-> operation, parent_id |-> parent_id, task |-> task]

AddOps(tr) ==
    {Op(o, p, f) : o \in {"add"}, p \in NamedIds(tr), f \in TaskFields}
    \cup {Op("ADD", Missing, Task(LlmSlug, "A", Missing, Missing, NoTime, <<>>))}

UpdateOps(tr) ==
    {Op("update", Missing, [f EXCEPT !.id = i]) : i \in NamedIds(tr), f \in TaskFields}

DeleteOps(tr) ==
    {Op("delete", Missing, Task(i, Missing, Missing, Missing, NoTime, <<>>)) :
        i \in NamedIds(tr)}

\* Well-formed add, update and delete operations.
CrudOps(tr) == AddOps(tr) \cup UpdateOps(tr) \cup DeleteOps(tr)

\* Operations apply_operations reports as failed: an unknown type, no
\* "operation" key, a task that is no object.
OddOps ==
    { Op("query", Missing, Task("ghost", Missing, Missing, Missing, NoTime, <<>>)),
      Op(Missing, Missing, Task(Missing, "A", Missing, Missing, NoTime, <<>>)),
      Op("add", "root", NullTask),
      Op("update", Missing, NullTask),
      Op("delete", Missing, NullTask) }

\* An operation object whose "operation" is null.
NullOps == { Op(None, "root", Task(Missing, "A", Missing, Missing, NoTime, <<>>)) }

RECURSIVE SeqsUpTo(_, _)
\* The sequences over S of length at most k.
SeqsUpTo(S, k) ==
    IF k = 0 THEN {<<>>}
    ELSE LET shorter == SeqsUpTo(S, k - 1)
         IN  shorter \cup {Append(s, x) : s \in shorter, x \in S}

\* A node of a tree the LLM proposes: an id and a title, as in the tests.
ProposedNode(id, subtasks) ==
    [id |-> id, title |-> "A", description |-> Missing, status |-> Missing,
     created_at |-> NoTime, updated_at |-> NoTime, subtasks |-> subtasks]

ProposedTree(subtasks) ==
    [id |-> "root", title |-> "Root Task", description |-> Missing, status |-> Missing,
     created_at |-> NoTime, updated_at |-> NoTime, subtasks |-> subtasks]

LlmSlug2 == "task-2"

\* The ids of a proposed tree: ids the tree or the mirror knows, a UUID and
\* slugs the LLM made up, and an empty id.
ProposedIds(tr, d) ==
    ExtractAllTaskIds(tr) \cup GetExistingTaskIdsFromDb(d)
    \cup {LlmUuid, LlmSlug, LlmSlug2, ""}

\* Proposed trees: the root over one node, over two nodes, or over a node with a subtask.
Proposals(tr, d) ==
    {ProposedTree(<<ProposedNode(a, <<>>)>>) : a \in ProposedIds(tr, d)}
    \cup {ProposedTree(<<ProposedNode(a, <<>>), ProposedNode(b, <<>>)>>) :
            a \in ProposedIds(tr, d), b \in {LlmSlug, LlmSlug2}}
    \cup {ProposedTree(<<ProposedNode(a, <<ProposedNode(LlmSlug2, <<>>)>>)>>) :
            a \in ProposedIds(tr, d)}

\* The metadata dict of TaskManager.update_task_metadata (task_cli update).
Metadata ==
    { Dict(Missing, Missing, Missing, Missing, "5", << <<"x">> >>, NoTime, NoTime),
      Dict(Missing, "B", Missing, Missing, Missing, NoTags, NoTime, NoTime) }

----------------------------------------------------------------------------
(* The status rollup: cortex_propel's Task and TaskStatusUpdater.  A Task is
   kept with its status, progress, parent_id and subtasks (a list of ids);
   its other fields, updated_at among them, play no part in the rollup. *)

\* TaskStatus
Statuses == {"pending", "in_progress", "completed", "cancelled"}

StoredTask(status, progress, parent_id, subtasks) ==
    [status |-> status, progress |-> progress, parent_id |-> parent_id,
     subtasks |-> subtasks]

\* The task files of one project: a top-level task, its subtask, and three
\* subtasks of that one, all new (pending, progress 0).
InitialTasks ==
    [id \in {"g", "p", "a", "b", "c"} |->
        IF id = "g" THEN StoredTask("pending", 0, None, <<"p">>)
        ELSE IF id = "p" THEN StoredTask("pending", 0, "g", <<"a", "b", "c">>)
        ELSE StoredTask("pending", 0, "p", <<>>)]

\* An absent progress argument (None); <<n>> is the argument n.
NoProgress == <<>>

\* Task.update_progress
TaskUpdateProgress(task, progress) ==
    IF 0 <= progress /\ progress <= 100
    THEN [task EXCEPT !.progress = progress,
                      !.status = IF progress = 100 /\ @ # "completed" THEN "completed"
                                 ELSE IF 0 < progress /\ progress < 100 /\ @ = "pending"
                                 THEN "in_progress"
                                 ELSE @]
    ELSE task

\* update_task_status: the task with the status and the progress applied.
ApplyStatusAndProgress(task, status, progress) ==
    LET adjusted ==
            IF status = None THEN task
            ELSE [task EXCEPT !.status = status,
                              !.progress = IF status = "completed" THEN 100
                                           ELSE IF status = "in_progress" /\ @ = 0 THEN 10
                                           ELSE IF status = "pending" THEN 0
                                           ELSE @]
    IN  IF progress = NoProgress THEN adjusted
        ELSE TaskUpdateProgress(adjusted, progress[1])

RECURSIVE CompleteSubtasks(_, _, _)
\* update_task_status: the loop that completes the subtasks of a completed
\* task; acc = [tasks, updated].
CompleteSubtasks(acc, subtask_ids, i) ==
    IF i > Len(subtask_ids) THEN acc
    ELSE LET subtask_id == subtask_ids[i]
             hit == subtask_id \in DOMAIN acc.tasks
                    /\ acc.tasks[subtask_id].status # "completed"
         IN  CompleteSubtasks(
                 IF hit
                 THEN [tasks |-> [acc.tasks EXCEPT ![subtask_id].status = "completed",
                                                   ![subtask_id].progress = 100],
                       updated |-> Append(acc.updated, subtask_id)]
                 ELSE acc,
                 subtask_ids, i + 1)

RECURSIVE Sum(_)
Sum(s) == IF s = <<>> THEN 0 ELSE Head(s) + Sum(Tail(s))

\* update_task_status: the parent recomputed from the subtasks it lists.
RollUpParent(ts, parent_id) ==
    LET parent == ts[parent_id]
        ids == SelectSeq(parent.subtasks, LAMBDA x : x \in DOMAIN ts)
        subtasks == [i \in 1..Len(ids) |-> ts[ids[i]]]
        total_progress == Sum([i \in 1..Len(ids) |-> subtasks[i].progress])
        parent_progress == total_progress \div Len(subtasks)
        measured == TaskUpdateProgress(parent, parent_progress)
        all_completed == \A i \in 1..Len(subtasks) : subtasks[i].status = "completed"
        any_in_progress == \E i \in 1..Len(subtasks) : subtasks[i].status = "in_progress"
    IN  [measured EXCEPT !.status = IF all_completed THEN "completed"
                                    ELSE IF any_in_progress THEN "in_progress"
                                    ELSE @]

\* TaskStatusUpdater.update_task_status on a task that is stored: the task
\* files it leaves and the ids of its updated_tasks list.
UpdateStoredTask(ts, task_id, status, progress, auto_update_subtasks, auto_update_parent) ==
    LET task == ApplyStatusAndProgress(ts[task_id], status, progress)
        saved == [tasks |-> [ts EXCEPT ![task_id] = task], updated |-> <<task_id>>]
        subs == IF auto_update_subtasks /\ status = "completed" /\ task.subtasks # <<>>
                THEN CompleteSubtasks(saved, task.subtasks, 1)
                ELSE saved
        rolls == /\ auto_update_parent
                 /\ Truthy(task.parent_id)
                 /\ task.parent_id \in DOMAIN subs.tasks
                 /\ \E i \in 1..Len(subs.tasks[task.parent_id].subtasks) :
                       subs.tasks[task.parent_id].subtasks[i] \in DOMAIN subs.tasks
    IN  IF rolls
        THEN [tasks |-> [subs.tasks EXCEPT ![task.parent_id] =
                                              RollUpParent(subs.tasks, task.parent_id)],
              updated |-> Append(subs.updated, task.parent_id)]
        ELSE subs

\* Task.update_progress of cortexpropel/models.py on a task that nests its
\* sub_tasks: progress and status recomputed from the sub_tasks' progress.
NestedUpdateProgress(task) ==
    IF task.sub_tasks = <<>> THEN task
    ELSE LET total_progress == Sum([i \in 1..Len(task.sub_tasks) |->
                                        task.sub_tasks[i].progress])
             progress == total_progress \div Len(task.sub_tasks)
         IN  [task EXCEPT !.progress = progress,
                          !.status = IF progress = 0 THEN "todo"
                                     ELSE IF progress = 100 THEN "done"
                                     ELSE "in_progress"]

----------------------------------------------------------------------------
(* The id-indexed store: TaskManager of src/models/task.py *)

IndexedTask(id, title, parent_id, subtask_ids) ==
    [id |-> id, title |-> title, parent_id |-> parent_id, subtask_ids |-> subtask_ids]

\* The tasks load_tasks finds in the file: t over t1 and t2, t1 over k.
InitialStore ==
    [x \in {"t", "t1", "t2", "k"} |->
        IF x = "t" THEN IndexedTask("t", "A", None, <<"t1", "t2">>)
        ELSE IF x = "t1" THEN IndexedTask("t1", "A", "t", <<"k">>)
        ELSE IF x = "t2" THEN IndexedTask("t2", "A", "t", <<>>)
        ELSE IndexedTask("k", "A", "t1", <<>>)]

\* The ids the tasks of create_task get, in the order they are created.
StoreUuid(n) == <<"n1", "n2", "n3", "n4", "n5">>[n + 1]

\* dict[key] = value
SetItem(st, key, value) ==
    [x \in (DOMAIN st) \cup {key} |-> IF x = key THEN value ELSE st[x]]

\* del dict[key]
DelItem(st, key) == [x \in (DOMAIN st) \ {key} |-> st[x]]

\* Task.add_subtask
AddSubtask(task, subtask_id) ==
    IF subtask_id \in Range(task.subtask_ids) THEN task
    ELSE [task EXCEPT !.subtask_ids = Append(@, subtask_id)]

\* list.remove of an element that is in the list: its first occurrence goes.
ListRemove(l, x) ==
    LET i == CHOOSE j \in 1..Len(l) : l[j] = x /\ \A m \in 1..(j - 1) : l[m] # x
    IN  SubSeq(l, 1, i - 1) \o SubSeq(l, i + 1, Len(l))

\* TaskManager.create_task
StoreCreateTask(st, n, title, parent_id) ==
    LET task_id == StoreUuid(n)
        task == IndexedTask(task_id, title, parent_id, <<>>)
        stored == SetItem(st, task_id, task)
    IN  IF Truthy(parent_id) /\ parent_id \in DOMAIN stored
        THEN [stored EXCEPT ![parent_id] = AddSubtask(@, task_id)]
        ELSE stored

\* TaskManager.update_task with the keyword arguments kwargs (a set of
\* <<key, value>>), each an attribute of Task.
StoreUpdateTask(st, task_id, kwargs) ==
    IF task_id \notin DOMAIN st THEN st
    ELSE [st EXCEPT ![task_id] =
            [key \in DOMAIN @ |->
                IF \E kv \in kwargs : kv[1] = key
                THEN (CHOOSE kv \in kwargs : kv[1] = key)[2]
                ELSE @[key]]]

RECURSIVE StoreDeleteTask(_, _), DeleteSubtasksFrom(_, _, _)
\* The loop `for subtask_id in task.subtask_ids` of delete_task: the list
\* iterator reads position i of the list as the calls inside the loop have
\* left it.
DeleteSubtasksFrom(st, task_id, i) ==
    IF i > Len(st[task_id].subtask_ids) THEN st
    ELSE DeleteSubtasksFrom(StoreDeleteTask(st, st[task_id].subtask_ids[i]), task_id, i + 1)

\* TaskManager.delete_task
StoreDeleteTask(st, task_id) ==
    IF task_id \notin DOMAIN st THEN st
    ELSE LET looped == DeleteSubtasksFrom(st, task_id, 1)
             task == looped[task_id]
             unlisted ==
                 IF /\ Truthy(task.parent_id)
                    /\ task.parent_id \in DOMAIN looped
                    /\ task_id \in Range(looped[task.parent_id].subtask_ids)
                 THEN [looped EXCEPT ![task.parent_id].subtask_ids = ListRemove(@, task_id)]
                 ELSE looped
         IN  DelItem(unlisted, task_id)

----------------------------------------------------------------------------
(* The LLM client: LLMClient.process_task_input

   A response text is a sequence of tokens: an opening brace, a closing brace,
   a stretch of prose, and three members of a JSON object, each with the
   separator it needs: "ops" is "operations": [an add under the root], "msg"
   is "message": "m", "emsg" is "message": "". *)

Tokens == {"{", "}", "x", "ops", "msg", "emsg"}

Members == {"ops", "msg", "emsg"}

\* The bound on the length of the short response texts.
MaxText == 3

\* JSON objects of at most two members.
Objects ==
    {<<"{", "}">>} \cup {<<"{", m, "}">> : m \in Members}
    \cup {<<"{", m1, m2, "}">> : m1 \in Members, m2 \in Members}

\* The response texts: every text of at most MaxText tokens, and the objects
\* with prose or a stray brace before and after them.
Contents ==
    SeqsUpTo(Tokens, MaxText)
    \cup {(pre \o o) \o post : pre \in {<<>>, <<"x">>, <<"}">>}, o \in Objects,
                               post \in {<<>>, <<"x">>, <<"x", "}">>, <<"{">>}}

\* str.index and str.rindex; 0 stands for ValueError.
Index(content, c) ==
    IF \E i \in 1..Len(content) : content[i] = c
    THEN CHOOSE i \in 1..Len(content) :
            content[i] = c /\ \A j \in 1..(i - 1) : content[j] # c
    ELSE 0

RIndex(content, c) ==
    IF \E i \in 1..Len(content) : content[i] = c
    THEN CHOOSE i \in 1..Len(content) :
            content[i] = c /\ \A j \in (i + 1)..Len(content) : content[j] # c
    ELSE 0

\* Whether json.loads accepts the text: one object of members, nothing else.
IsJson(text) ==
    /\ Len(text) >= 2
    /\ text[1] = "{"
    /\ text[Len(text)] = "}"
    /\ \A i \in 2..(Len(text) - 1) : text[i] \in Members

LlmOperations == <<Op("add", "root", Task(Missing, "A", Missing, Missing, NoTime, <<>>))>>

\* json.loads on a text it accepts: the dict, a repeated key keeping its last value.
ParseObject(text) ==
    LET messages == SelectSeq(text, LAMBDA m : m \in {"msg", "emsg"})
    IN  [operations |-> IF \E i \in 1..Len(text) : text[i] = "ops"
                        THEN LlmOperations ELSE Missing,
         message |-> IF messages = <<>> THEN Missing
                     ELSE IF messages[Len(messages)] = "msg" THEN "m" ELSE ""]

ParseFailed == [operations |-> <<>>, message |-> "parse failed"]

\* LLMClient.process_task_input on the response text `content`.
ProcessTaskInput(content) ==
    LET json_start == Index(content, "{")
        json_end == RIndex(content, "}") + 1
        response_json == SubSeq(content, json_start, json_end - 1)
    IN  IF json_start = 0 \/ json_end = 1 \/ ~IsJson(response_json)
        THEN ParseFailed
        ELSE LET result == ParseObject(response_json)
             IN  IF result.operations = Missing
                 THEN [operations |-> <<>>,
                       message |-> Get(result.message, "cannot parse operations")]
                 ELSE result

----------------------------------------------------------------------------
(* Top-level calls *)

NoResolver == [called |-> FALSE]

NoLlm == [called |-> FALSE]

\* The processes that run process_user_input against the same files.
Procs == {1, 2}

\* The threads that call into one TaskScheduler: two callers of
\* schedule_task, the thread of _scheduler_loop, and a thread that delivers
\* execution results to _on_task_execution_complete.
Callers == {"c1", "c2"}
Threads == Callers \cup {"loop", "exec"}

\* An absent priority_override (None); <<n>> is the override n.
NoOverride == <<>>

\* A thread that is not inside the scheduler, and the loop thread between two
\* sleeps.
Outside == [pc |-> "idle", task_id |-> None, priority_override |-> NoOverride, returned |-> None]
InLoop == [pc |-> "try", task_id |-> None, priority_override |-> NoOverride, returned |-> None]

\* No call has met the disk yet.
NoIo == [called |-> FALSE]

\* A process that is not inside process_user_input.
Idle == [pc |-> "idle"]

Init ==
    /\ tree = InitializeTaskTree(1)
    /\ db = EmptyDb
    /\ results = <<>>
    /\ lastCall = "none"
    /\ now = 1
    /\ nextUuid = 0
    /\ resolver = NoResolver
    /\ llm = NoLlm
    /\ taskFiles = InitialTasks
    /\ updated_tasks = <<>>
    /\ store = InitialStore
    /\ storeCount = 0
    /\ procs = [p \in Procs |-> Idle]
    /\ fileState = "ok"
    /\ io = NoIo
    /\ task_queue = <<>>
    /\ running_tasks = {}
    /\ threads = [th \in Threads |-> IF th = "loop" THEN InLoop ELSE Outside]

\* TaskManager.save_task_tree: the file is rewritten, then the mirror synced.
SaveTaskTree(d, t, clock) == SyncFromTaskTree(d, t, clock)

\* TaskManager.process_user_input with the LLM answering `operations`.
ProcessUserInput(operations) ==
    /\ now <= MaxClock
    /\ LET t == now + 1
           r == ApplyOperations(tree, db, nextUuid, operations, t)
       IN  /\ r.next <= MaxUuid
           /\ IF r.raised
              THEN /\ tree' = tree
                   /\ db' = r.db
                   /\ results' = <<>>
                   /\ lastCall' = "process_user_input raised"
              ELSE /\ tree' = r.tree
                   /\ db' = SaveTaskTree(r.db, r.tree, t)
                   /\ results' = r.results
                   /\ lastCall' = "process_user_input"
           /\ nextUuid' = r.next
           /\ now' = t
    /\ resolver' = NoResolver
    /\ llm' = NoLlm
    /\ UNCHANGED notTree

\* TaskManager.process_user_input with the LLM answering the text `content`.
ProcessUserInputText(content) ==
    /\ now <= MaxClock
    /\ LET t == now + 1
           llm_result == ProcessTaskInput(content)
           r == ApplyOperations(tree, db, nextUuid, llm_result.operations, t)
       IN  /\ r.next <= MaxUuid
           /\ tree' = r.tree
           /\ db' = SaveTaskTree(r.db, r.tree, t)
           /\ results' = r.results
           /\ lastCall' = "process_user_input"
           /\ nextUuid' = r.next
           /\ now' = t
           /\ llm' = [called |-> TRUE, content |-> content, result |-> llm_result]
    /\ resolver' = NoResolver
    /\ UNCHANGED notTree

\* TaskManager.reset_task_tree
ResetTaskTree ==
    /\ now <= MaxClock
    /\ LET t == now + 1
           initial_tree == InitializeTaskTree(t)
           saved == SaveTaskTree(db, initial_tree, t)
       IN  /\ tree' = initial_tree
           /\ db' = [x \in GetAllIds(saved) \cap {"root"} |-> saved[x]]
           /\ now' = t
    /\ results' = <<>>
    /\ lastCall' = "reset_task_tree"
    /\ resolver' = NoResolver
    /\ UNCHANGED nextUuid
    /\ llm' = NoLlm
    /\ UNCHANGED notTree

\* TaskManager._assign_uuids_to_new_tasks on a proposed tree.
AssignUuids(task_tree) ==
    /\ now <= MaxClock
    /\ LET t == now + 1
           r == AssignUuidsToNewTasks(tree, db, nextUuid, task_tree, t)
       IN  /\ r.next <= MaxUuid
           /\ db' = r.db
           /\ nextUuid' = r.next
           /\ resolver' = [called |-> TRUE, proposed |-> task_tree, result |-> r.result,
                           id_mapping |-> r.id_mapping,
                           known |-> ExtractAllTaskIds(tree) \cup GetExistingTaskIdsFromDb(db),
                           before |-> db]
           /\ now' = t
    /\ lastCall' = "_assign_uuids_to_new_tasks"
    /\ results' = <<>>
    /\ UNCHANGED tree
    /\ llm' = NoLlm
    /\ UNCHANGED notTree

\* TaskManager.save_task_tree on a tree the caller hands it.
Save(task_tree) ==
    /\ now <= MaxClock
    /\ tree' = task_tree
    /\ db' = SaveTaskTree(db, task_tree, now + 1)
    /\ now' = now + 1
    /\ lastCall' = "save_task_tree"
    /\ results' = <<>>
    /\ resolver' = NoResolver
    /\ UNCHANGED nextUuid
    /\ llm' = NoLlm
    /\ UNCHANGED notTree

\* TaskManager.save_task_tree on the tree the resolver has just returned (the
\* tests' workflow); resolver keeps describing that resolution.
SaveResolved ==
    /\ resolver.called
    /\ now <= MaxClock
    /\ tree' = resolver.result
    /\ db' = SaveTaskTree(db, resolver.result, now + 1)
    /\ now' = now + 1
    /\ lastCall' = "save_task_tree"
    /\ results' = <<>>
    /\ UNCHANGED <<nextUuid, resolver>>
    /\ llm' = NoLlm
    /\ UNCHANGED notTree

\* TaskManager.update_task_metadata
UpdateTaskMetadata(task_id, metadata) ==
    /\ now <= MaxClock
    /\ db' = CreateOrUpdateTask(db, [metadata EXCEPT !.id = task_id], EmptyDict, now + 1)
    /\ now' = now + 1
    /\ lastCall' = "update_task_metadata"
    /\ results' = <<>>
    /\ resolver' = NoResolver
    /\ UNCHANGED <<tree, nextUuid>>
    /\ llm' = NoLlm
    /\ UNCHANGED notTree

\* TaskManager.sync_task_tree_to_db
SyncTaskTreeToDb ==
    /\ now <= MaxClock
    /\ db' = SyncFromTaskTree(db, tree, now + 1)
    /\ now' = now + 1
    /\ lastCall' = "sync_task_tree_to_db"
    /\ results' = <<>>
    /\ resolver' = NoResolver
    /\ UNCHANGED <<tree, nextUuid>>
    /\ llm' = NoLlm
    /\ UNCHANGED notTree

\* The operations the model puts in responses of several operations: an add
\* under the root, an add under a parent that is not there, an update of a node
\* that is not there, a delete of each node.
FewOps(tr) ==
    { Op("add", "root", Task(Missing, "A", Missing, Missing, NoTime, <<>>)),
      Op("add", "ghost", Task(Missing, "A", Missing, Missing, NoTime, <<>>)),
      Op("update", Missing, Task("ghost", "B", Missing, Missing, NoTime, <<>>)) }
    \cup {op \in DeleteOps(tr) : op.task.id \notin {"ghost", Missing}}

\* LLM responses made of well-formed add, update and delete operations: one
\* operation of any kind, or up to MaxOps of FewOps.
CrudResponses(tr) ==
    {<<op>> : op \in CrudOps(tr)} \cup SeqsUpTo(FewOps(tr), MaxOps)

\* LLM responses of any kind: one operation, or up to MaxOps operations among
\* FewOps, the operations that fail and the operation that is null.
AnyResponses(tr) ==
    {<<op>> : op \in CrudOps(tr)}
    \cup SeqsUpTo(FewOps(tr) \cup OddOps \cup NullOps, MaxOps)

\* LLM responses of one operation.
OneOpResponses(tr) == {<<op>> : op \in CrudOps(tr) \cup OddOps \cup NullOps}

\* Batches of well-formed add, update and delete operations, and reset.
NextOps ==
    \/ \E operations \in CrudResponses(tree) : ProcessUserInput(operations)
    \/ ResetTaskTree

SpecOps == Init /\ [][NextOps]_vars

\* Batches of any operations, and reset.
NextBatch ==
    \/ \E operations \in AnyResponses(tree) : ProcessUserInput(operations)
    \/ ResetTaskTree

SpecBatch == Init /\ [][NextBatch]_vars

\* A status string outside pending | in_progress | completed | cancelled.
UnknownStatus == "bogus"

\* Updates of a node of the tree that set title, description and a status the
\* LLM chose, inside the vocabulary or not.
StatusOps(tr) ==
    {Op("update", Missing, Task(i, "B", "d", st, NoTime, <<>>)) :
        i \in Range(AllIdsSeq(tr)), st \in {"completed", "pending", UnknownStatus}}

\* Batches of well-formed operations, updates with a status, and reset.
NextStatus ==
    \/ \E operations \in CrudResponses(tree) : ProcessUserInput(operations)
    \/ \E op \in StatusOps(tree) : ProcessUserInput(<<op>>)
    \/ ResetTaskTree

SpecStatus == Init /\ [][NextStatus]_vars

\* process_user_input on response texts, and reset.
NextText ==
    \/ \E content \in Contents : ProcessUserInputText(content)
    \/ ResetTaskTree

SpecText == Init /\ [][NextText]_vars

\* Every top-level call of TaskManager the model has.
Next ==
    \/ \E operations \in OneOpResponses(tree) : ProcessUserInput(operations)
    \/ ResetTaskTree
    \/ \E task_tree \in Proposals(tree, db) : AssignUuids(task_tree)
    \/ \E task_tree \in Proposals(tree, db) : Save(task_tree)
    \/ SaveResolved
    \/ \E task_id \in ProposedIds(tree, db) \ {LlmUuid, LlmSlug2, ""}, metadata \in Metadata :
           UpdateTaskMetadata(task_id, metadata)
    \/ SyncTaskTreeToDb

Spec == Init /\ [][Next]_vars

\* The task ids, statuses and progress values the callers of TaskStatusUpdater
\* pass: the stored ids and one that is not stored; no status or one of
\* TaskStatus; no progress, a progress in range or one above it.
CalledIds == (DOMAIN taskFiles) \cup {"ghost"}

StatusArgs == Statuses \cup {None}

ProgressArgs == {NoProgress, <<0>>, <<50>>, <<100>>, <<150>>}

\* TaskStatusUpdater.update_task_status, both auto-updates at their default.
UpdateTaskStatus(task_id, status, progress) ==
    /\ now <= MaxClock
    /\ IF task_id \in DOMAIN taskFiles
       THEN LET r == UpdateStoredTask(taskFiles, task_id, status, progress, TRUE, TRUE)
            IN  /\ taskFiles' = r.tasks
                /\ updated_tasks' = r.updated
                /\ lastCall' = "update_task_status"
       ELSE /\ UNCHANGED taskFiles
            /\ updated_tasks' = <<>>
            /\ lastCall' = "update_task_status raised"
    /\ now' = now + 1
    /\ UNCHANGED notRollup

\* TaskStatusUpdater.update_task_progress
UpdateTaskProgress(task_id, progress) ==
    /\ progress # NoProgress
    /\ now <= MaxClock
    /\ IF task_id \in DOMAIN taskFiles
       THEN LET r == UpdateStoredTask(taskFiles, task_id, None, progress, TRUE, TRUE)
            IN  /\ taskFiles' = r.tasks
                /\ updated_tasks' = r.updated
                /\ lastCall' = "update_task_progress"
       ELSE /\ UNCHANGED taskFiles
            /\ updated_tasks' = <<>>
            /\ lastCall' = "update_task_progress raised"
    /\ now' = now + 1
    /\ UNCHANGED notRollup

RECURSIVE BulkFromCascading(_, _, _, _, _)
\* A faulty bulk loop that leaves both auto-updates at their default.
BulkFromCascading(acc, task_ids, i, status, progress) ==
    IF i > Len(task_ids) THEN acc
    ELSE LET task_id == task_ids[i]
             r == UpdateStoredTask(acc.tasks, task_id, status, progress, TRUE, TRUE)
         IN  BulkFromCascading(IF task_id \in DOMAIN acc.tasks
                               THEN [tasks |-> r.tasks,
                                     updated |-> (acc.updated \o <<task_id>>) \o r.updated]
                               ELSE acc,
                               task_ids, i + 1, status, progress)

RECURSIVE BulkFrom(_, _, _, _, _)
\* The loop of bulk_update_status; acc = [tasks, updated].
BulkFrom(acc, task_ids, i, status, progress) ==
    IF i > Len(task_ids) THEN acc
    ELSE LET task_id == task_ids[i]
             r == UpdateStoredTask(acc.tasks, task_id, status, progress, FALSE, FALSE)
         IN  BulkFrom(IF task_id \in DOMAIN acc.tasks
                      THEN [tasks |-> r.tasks, updated |-> (acc.updated \o <<task_id>>) \o r.updated]
                      ELSE acc,
                      task_ids, i + 1, status, progress)

\* TaskStatusUpdater.bulk_update_status
BulkUpdateStatus(task_ids, status, progress) ==
    /\ now <= MaxClock
    /\ LET r == BulkFrom([tasks |-> taskFiles, updated |-> <<>>], task_ids, 1, status, progress)
       IN  /\ taskFiles' = r.tasks
           /\ updated_tasks' = r.updated
    /\ lastCall' = "bulk_update_status"
    /\ now' = now + 1
    /\ UNCHANGED notRollup

\* The id lists bulk_update_status is called with.
BulkIds == {<<"a", "ghost", "p">>, <<"b", "c">>, <<"g">>}

\* Every call of TaskStatusUpdater that changes a status or a progress.
NextRollup ==
    \/ \E task_id \in CalledIds, status \in StatusArgs, progress \in ProgressArgs :
           UpdateTaskStatus(task_id, status, progress)
    \/ \E task_id \in CalledIds, progress \in ProgressArgs :
           UpdateTaskProgress(task_id, progress)
    \/ \E task_ids \in BulkIds, status \in StatusArgs, progress \in ProgressArgs :
           BulkUpdateStatus(task_ids, status, progress)

SpecRollup == Init /\ [][NextRollup]_vars

\* The arguments of the calls on the id-indexed store: the stored ids and one
\* that is not stored; as parent also none; the keyword arguments a caller
\* of update_task passes.
StoreIds == (DOMAIN store) \cup {"ghost"}

ParentArgs == StoreIds \cup {None}

Kwargs == { {<<"title", "B">>}, {<<"parent_id", None>>} }

\* TaskManager.create_task
CreateTask(title, parent_id) ==
    /\ now <= MaxClock
    /\ storeCount < MaxUuid
    /\ now' = now + 1
    /\ store' = StoreCreateTask(store, storeCount, title, parent_id)
    /\ storeCount' = storeCount + 1
    /\ lastCall' = "create_task"
    /\ UNCHANGED notIndex

\* TaskManager.update_task
UpdateStored(task_id, kwargs) ==
    /\ now <= MaxClock
    /\ now' = now + 1
    /\ store' = StoreUpdateTask(store, task_id, kwargs)
    /\ lastCall' = "update_task"
    /\ UNCHANGED storeCount
    /\ UNCHANGED notIndex

\* TaskManager.delete_task
DeleteStored(task_id) ==
    /\ now <= MaxClock
    /\ now' = now + 1
    /\ store' = StoreDeleteTask(store, task_id)
    /\ lastCall' = "delete_task"
    /\ UNCHANGED storeCount
    /\ UNCHANGED notIndex

\* Every call of models.task.TaskManager that changes the store.
NextIndex ==
    \/ \E parent_id \in ParentArgs : CreateTask("A", parent_id)
    \/ \E task_id \in StoreIds, kwargs \in Kwargs : UpdateStored(task_id, kwargs)
    \/ \E task_id \in StoreIds : DeleteStored(task_id)

SpecIndex == Init /\ [][NextIndex]_vars

\* json.dump(task_tree, f) on the opened file: the file holds task_tree.
WriteMerged(file, task_tree) ==
    [task_tree EXCEPT !.subtasks =
        @ \o SelectSeq(file.subtasks, LAMBDA n : n.id \notin ExtractAllTaskIds(task_tree))]

WriteFile(file, task_tree) == task_tree

\* process_user_input, step 1: load_task_tree reads the file.
LoadStep(p) ==
    /\ procs[p].pc \in {"idle", "done"}
    /\ now <= MaxClock
    /\ procs' = [procs EXCEPT ![p] = [pc |-> "loaded", current_tree |-> tree]]
    /\ lastCall' = "load_task_tree"
    /\ UNCHANGED <<tree, db, results, now, nextUuid, resolver, llm>>
    /\ UNCHANGED notRace

\* process_user_input, step 2: the LLM answers and apply_operations changes
\* the loaded tree in memory and the rows of the mirror.
ApplyStep(p, operations) ==
    /\ procs[p].pc = "loaded"
    /\ now <= MaxClock
    /\ LET t == now + 1
           r == ApplyOperations(procs[p].current_tree, db, nextUuid, operations, t)
       IN  /\ r.next <= MaxUuid
           /\ ~r.raised
           /\ procs' = [procs EXCEPT ![p] = [pc |-> "applied", current_tree |-> r.tree,
                                              results |-> r.results]]
           /\ db' = r.db
           /\ nextUuid' = r.next
           /\ now' = t
    /\ lastCall' = "apply_operations"
    /\ UNCHANGED <<tree, results, resolver, llm>>
    /\ UNCHANGED notRace

\* process_user_input, step 3: save_task_tree writes the file and syncs the
\* mirror; the call returns its results.
SaveStep(p) ==
    /\ procs[p].pc = "applied"
    /\ tree' = WriteFile(tree, procs[p].current_tree)
    /\ db' = SyncFromTaskTree(db, procs[p].current_tree, now)
    /\ results' = procs[p].results
    /\ procs' = [procs EXCEPT ![p].pc = "done"]
    /\ lastCall' = "process_user_input"
    /\ resolver' = NoResolver
    /\ llm' = NoLlm
    /\ UNCHANGED <<now, nextUuid>>
    /\ UNCHANGED notRace

\* Two processes, each running process_user_input step by step, no lock.
NextRace ==
    \/ \E p \in Procs : LoadStep(p)
    \/ \E p \in Procs :
          /\ procs[p].pc = "loaded"
          /\ \E op \in FewOps(procs[p].current_tree) : ApplyStep(p, <<op>>)
    \/ \E p \in Procs : SaveStep(p)

SpecRace == Init /\ [][NextRace]_vars

\* A faulty load_task_tree that answers a file it cannot parse with a fresh
\* tree it does not write.
LoadTaskTreeInMemory(state, file, t) ==
    IF state = "ok" THEN [current_tree |-> file, saves |-> FALSE]
    ELSE [current_tree |-> InitializeTaskTree(t), saves |-> state = "missing"]

\* TaskManager.load_task_tree on a file that is there and parses, is not
\* there, or does not parse: the tree it returns and whether it calls
\* save_task_tree on it.
LoadTaskTree(state, file, t) ==
    IF state = "ok" THEN [current_tree |-> file, saves |-> FALSE]
    ELSE [current_tree |-> InitializeTaskTree(t), saves |-> TRUE]

\* TaskManager.save_task_tree when writes may fail: an IOError of the file
\* write is caught and skips the sync; a failed mirror write returns False
\* and leaves the mirror as it was.  Answers the file and the mirror it leaves.
SaveOnDisk(state, file, d, task_tree, t, file_fails, mirror_fails) ==
    IF file_fails THEN [state |-> state, file |-> file, db |-> d]
    ELSE [state |-> "ok", file |-> task_tree,
          db |-> IF mirror_fails THEN d ELSE SyncFromTaskTree(d, task_tree, t)]

\* Something outside the program damages or removes the tree file.
DamageFile(state) ==
    /\ fileState = "ok"
    /\ fileState' = state
    /\ lastCall' = "none"
    /\ io' = NoIo
    /\ UNCHANGED <<tree, db, results, now, nextUuid, resolver, llm>>
    /\ UNCHANGED notFile

\* TaskManager.load_task_tree, called on its own (get_task_tree).
LoadTaskTreeCall(file_fails, mirror_fails) ==
    /\ now <= MaxClock
    /\ LET t == now + 1
           l == LoadTaskTree(fileState, tree, t)
           s == IF l.saves
                THEN SaveOnDisk(fileState, tree, db, l.current_tree, t, file_fails, mirror_fails)
                ELSE [state |-> fileState, file |-> tree, db |-> db]
       IN  /\ fileState' = s.state
           /\ tree' = s.file
           /\ db' = s.db
           /\ io' = [called |-> TRUE, returned |-> "result", found |-> fileState,
                     current_tree |-> l.current_tree,
                     file_failed |-> l.saves /\ file_fails,
                     mirror_failed |-> FALSE]
           /\ now' = t
    /\ lastCall' = "load_task_tree"
    /\ results' = <<>>
    /\ resolver' = NoResolver
    /\ llm' = NoLlm
    /\ UNCHANGED nextUuid
    /\ UNCHANGED notFile

\* TaskManager.process_user_input on the disk as it is, with the LLM
\* answering `operations`; the writes of the file and of the mirror fail or
\* not for the whole call.
ProcessUserInputOnDisk(operations, file_fails, mirror_fails) ==
    /\ now <= MaxClock
    /\ LET t == now + 1
           l == LoadTaskTree(fileState, tree, t)
           healed == IF l.saves
                     THEN SaveOnDisk(fileState, tree, db, l.current_tree, t,
                                     file_fails, mirror_fails)
                     ELSE [state |-> fileState, file |-> tree, db |-> db]
           r == ApplyOperations(l.current_tree, healed.db, nextUuid, operations, t)
           applied == IF mirror_fails THEN healed.db ELSE r.db
           saved == SaveOnDisk(healed.state, healed.file, applied, r.tree, t,
                               file_fails, mirror_fails)
       IN  /\ r.next <= MaxUuid
           /\ ~r.raised
           /\ fileState' = saved.state
           /\ tree' = saved.file
           /\ db' = saved.db
           /\ results' = r.results
           /\ nextUuid' = r.next
           /\ io' = [called |-> TRUE, returned |-> "result", found |-> fileState,
                     current_tree |-> l.current_tree,
                     file_failed |-> file_fails,
                     mirror_failed |->
                         /\ mirror_fails
                         /\ \/ r.db # healed.db
                            \/ ~file_fails /\ SyncFromTaskTree(applied, r.tree, t) # applied]
           /\ now' = t
    /\ lastCall' = "process_user_input"
    /\ resolver' = NoResolver
    /\ llm' = NoLlm
    /\ UNCHANGED notFile

\* The tree the next call will load.
OnDisk == IF fileState = "ok" THEN tree ELSE InitializeTaskTree(now + 1)

\* The calls of TaskManager on a disk that may fail, and the damage done to
\* the file from outside.
NextFile ==
    \/ \E state \in {"missing", "corrupt"} : DamageFile(state)
    \/ \E file_fails \in BOOLEAN, mirror_fails \in BOOLEAN :
           LoadTaskTreeCall(file_fails, mirror_fails)
    \/ \E op \in FewOps(OnDisk), file_fails \in BOOLEAN, mirror_fails \in BOOLEAN :
           ProcessUserInputOnDisk(<<op>>, file_fails, mirror_fails)

SpecFile == Init /\ [][NextFile]_vars

\* The tasks the TaskManager holds (all built by Task.__init__: status
\* PENDING, no dependencies attribute), and config.task_max_concurrent_tasks.
SchedTasks == {"t1", "t2"}
max_concurrent_tasks == 3

\* The values of priority_override: none, or an integer.
Overrides == {NoOverride, <<1>>, <<2>>}

\* ScheduledTask and ScheduledTask.__lt__
ScheduledTask(task_id, priority_value) == [id |-> task_id, priority_value |-> priority_value]
Lt(a, b) == a.priority_value < b.priority_value

RECURSIVE SiftDown(_, _, _)
\* heapq._siftdown(heap, 0, pos) for newitem taken from pos (positions from 0).
SiftDown(heap, newitem, pos) ==
    LET parentpos == (pos - 1) \div 2
    IN  IF pos > 0 /\ Lt(newitem, heap[parentpos + 1])
        THEN SiftDown([heap EXCEPT ![pos + 1] = heap[parentpos + 1]], newitem, parentpos)
        ELSE [heap EXCEPT ![pos + 1] = newitem]

RECURSIVE SiftUp(_, _, _)
\* heapq._siftup(heap, 0): the smaller child moves up until a leaf is hit,
\* then newitem sifts down from there.
SiftUp(heap, newitem, pos) ==
    LET childpos == 2 * pos + 1
        rightpos == childpos + 1
        smaller == IF rightpos < Len(heap) /\ ~Lt(heap[childpos + 1], heap[rightpos + 1])
                   THEN rightpos ELSE childpos
    IN  IF childpos < Len(heap)
        THEN SiftUp([heap EXCEPT ![pos + 1] = heap[smaller + 1]], newitem, smaller)
        ELSE SiftDown(heap, newitem, pos)

\* heapq.heappush and heapq.heappop on task_queue.
HeapPush(heap, item) == SiftDown(Append(heap, item), item, Len(heap))

HeapPop(heap) ==
    LET lastelt == heap[Len(heap)]
        rest == SubSeq(heap, 1, Len(heap) - 1)
    IN  IF rest = <<>> THEN [item |-> lastelt, heap |-> <<>>]
        ELSE [item |-> rest[1], heap |-> SiftUp(rest, lastelt, 0)]

\* _is_task_in_queue, first half: the scan of task_queue.
InQueue(heap, task_id) == \E i \in 1..Len(heap) : heap[i].id = task_id

\* schedule_task up to the scan of the queue in _is_task_in_queue; nothing
\* is locked.
ScheduleTask(th, task_id, priority_override) ==
    /\ threads[th].pc = "idle"
    /\ threads' = [threads EXCEPT ![th] =
           IF InQueue(task_queue, task_id)
           THEN [pc |-> "idle", task_id |-> task_id, priority_override |-> priority_override,
                 returned |-> "False"]
           ELSE [pc |-> "scanned", task_id |-> task_id, priority_override |-> priority_override,
                 returned |-> None]]
    /\ UNCHANGED <<task_queue, running_tasks>>
    /\ UNCHANGED notSched

\* schedule_task from the look into running_tasks that ends _is_task_in_queue
\* to the ScheduledTask: without an override _calculate_priority_value builds
\* its priority_map (policy PRIORITY) with TaskPriority.URGENT, which the enum
\* lacks, and raises AttributeError.
CheckRunning(th) ==
    /\ threads[th].pc = "scanned"
    /\ threads' = [threads EXCEPT ![th] =
           IF threads[th].task_id \in running_tasks
           THEN [@ EXCEPT !.pc = "idle", !.returned = "False"]
           ELSE IF threads[th].priority_override = NoOverride
           THEN [@ EXCEPT !.pc = "idle", !.returned = "raised"]
           ELSE [@ EXCEPT !.pc = "push"]]
    /\ UNCHANGED <<task_queue, running_tasks>>
    /\ UNCHANGED notSched

\* schedule_task: the heappush under the lock.
Push(th) ==
    /\ threads[th].pc = "push"
    /\ task_queue' = HeapPush(task_queue,
                              ScheduledTask(threads[th].task_id, threads[th].priority_override[1]))
    /\ threads' = [threads EXCEPT ![th].pc = "try"]
    /\ UNCHANGED running_tasks
    /\ UNCHANGED notSched

\* _try_schedule_next, one locked block: with room and a queued task it pops
\* the task, and _check_dependencies raises AttributeError on it (a Task has
\* no dependencies attribute), which releases the lock, leaves the task
\* popped, and goes up to the caller; execute_task is not reached.  The loop
\* swallows the exception and comes back after its sleep.
TryScheduleNext(th) ==
    /\ threads[th].pc = "try"
    /\ LET stops == Cardinality(running_tasks) >= max_concurrent_tasks \/ task_queue = <<>>
       IN  /\ task_queue' = IF stops THEN task_queue ELSE HeapPop(task_queue).heap
           /\ threads' = [threads EXCEPT ![th] =
                  IF th = "loop" THEN @
                  ELSE [@ EXCEPT !.pc = "idle",
                                 !.returned = IF stops
                                              THEN (IF th \in Callers THEN "True" ELSE None)
                                              ELSE "raised"]]
    /\ UNCHANGED running_tasks
    /\ UNCHANGED notSched

\* _on_task_execution_complete up to its call of _try_schedule_next: the
\* locked removal from running_tasks.
OnTaskExecutionComplete(th, task_id) ==
    /\ th = "exec"
    /\ threads[th].pc = "idle"
    /\ running_tasks' = running_tasks \ {task_id}
    /\ threads' = [threads EXCEPT ![th] = [pc |-> "try", task_id |-> task_id,
                                           priority_override |-> NoOverride, returned |-> None]]
    /\ UNCHANGED task_queue
    /\ UNCHANGED notSched

\* Every interleaving of the steps of the threads inside the scheduler.
NextSched ==
    \/ \E th \in Callers, task_id \in SchedTasks, priority_override \in Overrides :
           ScheduleTask(th, task_id, priority_override)
    \/ \E th \in Callers : CheckRunning(th)
    \/ \E th \in Callers : Push(th)
    \/ \E th \in Threads : TryScheduleNext(th)
    \/ \E task_id \in SchedTasks : OnTaskExecutionComplete("exec", task_id)

SpecSched == Init /\ [][NextSched]_vars

----------------------------------------------------------------------------
(* Properties *)

NonRootNodes(t) == AllNodesIn(t.subtasks, 1)

NonRootRows(d) == GetAllIds(d) \ {"root"}

\* Two rows that differ at most in updated_at.
SameButUpdatedAt(r1, r2) == [r1 EXCEPT !.updated_at = NoTime] = [r2 EXCEPT !.updated_at = NoTime]

RemoveIndex(s, i) == SubSeq(s, 1, i - 1) \o SubSeq(s, i + 1, Len(s))

\* The last call was process_user_input and returned the result of one
\* successful operation of this type.
OneResult(rs, call, op_type) ==
    /\ call = "process_user_input"
    /\ Len(rs) = 1
    /\ rs[1].operation = op_type
    /\ rs[1].success

(* C1: after any sequence of process_user_input batches of add, update and
   delete operations and of resets, the non-root ids of the mirror are the
   non-root ids of the tree, one row per non-root node; two adds on the
   root-only tree leave 2 children with distinct ids and 2 non-root rows. *)
C1_MirrorIdsAreTreeIds ==
    /\ [](/\ NonRootRows(db) = {n.id : n \in Range(NonRootNodes(tree))}
          /\ Cardinality(NonRootRows(db)) = Len(NonRootNodes(tree)))
    /\ [][(/\ tree.subtasks = <<>>
           /\ lastCall' = "process_user_input"
           /\ Len(results') = 2
           /\ \A i \in 1..2 : results'[i].operation = "add" /\ results'[i].success)
          => (/\ Len(tree'.subtasks) = 2
              /\ tree'.subtasks[1].id # tree'.subtasks[2].id
              /\ NonRootRows(db') = {tree'.subtasks[1].id, tree'.subtasks[2].id})]_vars

C1_Witness ==
    /\ lastCall = "process_user_input"
    /\ Len(results) = 2
    /\ \A i \in 1..2 : results[i].operation = "add" /\ results[i].success
    /\ Len(tree.subtasks) = 2
    /\ Cardinality(NonRootRows(db)) = 2

DeleteRootOp == Op("delete", Missing, Task("root", Missing, Missing, Missing, NoTime, <<>>))

(* C2: the top node of the tree always has id "root"; the resolver neither
   rewrites the "root" of a proposed tree nor maps it; a delete operation
   naming "root" fails with "Cannot delete root task" and changes nothing:
   the call leaves the tree as it was and the mirror as the save of that
   unchanged tree leaves it, every row of a node with an id still there and,
   updated_at apart, as it was. *)
C2_RootImmutable ==
    /\ [](/\ tree.id = "root"
          /\ resolver.called =>
                /\ resolver.result.id = "root"
                /\ \A i \in 1..Len(resolver.id_mapping) : resolver.id_mapping[i][1] # "root")
    /\ [][ProcessUserInput(<<DeleteRootOp>>)
          => (/\ Len(results') = 1
              /\ ~results'[1].success
              /\ results'[1].error = "Cannot delete root task"
              /\ tree' = tree
              /\ db' = SaveTaskTree(db, tree, now')
              /\ \A x \in (DOMAIN db) \ {""} :
                    x \in DOMAIN db' /\ SameButUpdatedAt(db[x], db'[x]))]_vars

C2_Witness ==
    /\ lastCall = "process_user_input"
    /\ Len(results) = 1
    /\ results[1].operation = "delete"
    /\ results[1].error = "Cannot delete root task"
    /\ tree.subtasks # <<>>
    /\ "root" \in DOMAIN db

\* A node with the four fields an update may change blanked.
Masked(node) ==
    [node EXCEPT !.title = "", !.description = "", !.status = "", !.updated_at = NoTime]

(* C3: a successful update changes at most title, description, status and
   updated_at of the node it names; that node's id, created_at and subtasks
   and every other node stay as they were, whatever keys the task object
   carries. *)
C3_UpdateFrame ==
    [][OneResult(results', lastCall', "update")
       => LET p == FindPath(tree, results'[1].task_id)
          IN  /\ p # NoPath
              /\ ReplaceAt(tree', p, Masked(NodeAt(tree', p)))
                    = ReplaceAt(tree, p, Masked(NodeAt(tree, p)))]_vars

C3_Witness ==
    /\ OneResult(results, lastCall, "update")
    /\ results[1].updated_fields = <<"status">>
    /\ LET node == NodeAt(tree, FindPath(tree, results[1].task_id))
       IN  /\ node.id # "root"
           /\ node.status = "completed"
           /\ node.subtasks # <<>>
           /\ node.created_at # 1
           /\ node.updated_at > node.created_at

(* C4: a successful delete of a non-root node with N descendants removes the
   node and its descendants from the tree and exactly N+1 rows from the
   mirror, reports deleted_count = N+1, and leaves every other node and every
   other row (updated_at apart) as it was. *)
C4_CascadeDelete ==
    [][OneResult(results', lastCall', "delete")
       => LET p == FindPath(tree, results'[1].task_id)
              gone == AllIdsSeq(NodeAt(tree, p))
              parent == NodeAt(tree, Front(p))
          IN  /\ p # NoPath /\ p # <<>>
              /\ results'[1].deleted_count = Len(gone)
              /\ tree' = ReplaceAt(tree, Front(p),
                                   [parent EXCEPT !.subtasks = RemoveIndex(@, p[Len(p)])])
              /\ DOMAIN db' = (DOMAIN db) \ Range(gone)
              /\ Cardinality(DOMAIN db) - Cardinality(DOMAIN db') = Len(gone)
              /\ \A x \in DOMAIN db' : SameButUpdatedAt(db[x], db'[x])]_vars

C4_Witness ==
    /\ OneResult(results, lastCall, "delete")
    /\ results[1].deleted_count = 2
    /\ tree.subtasks = <<>>
    /\ DOMAIN db = {"root"}

(* C5: a proposed node whose id is UUID-shaped and known to the tree or to the
   mirror keeps that id through the resolver, and the resolver maps it to
   nothing. *)
C5_KnownUuidKept ==
    resolver.called =>
        LET proposed == AllIdsSeq(resolver.proposed)
            resolved == AllIdsSeq(resolver.result)
        IN  /\ Len(resolved) = Len(proposed)
            /\ \A i \in 1..Len(proposed) :
                  (proposed[i] \in UuidShaped /\ proposed[i] \in resolver.known)
                  => /\ resolved[i] = proposed[i]
                     /\ \A j \in 1..Len(resolver.id_mapping) :
                           resolver.id_mapping[j][1] # proposed[i]

C5_Witness ==
    /\ resolver.called
    /\ resolver.id_mapping # <<>>
    /\ \E i \in 1..Len(AllIdsSeq(resolver.proposed)) :
          /\ AllIdsSeq(resolver.proposed)[i] \in UuidShaped
          /\ AllIdsSeq(resolver.proposed)[i] \in resolver.known
          /\ AllIdsSeq(resolver.proposed)[i] \notin ExtractAllTaskIds(tree)
          /\ AllIdsSeq(resolver.result)[i] = AllIdsSeq(resolver.proposed)[i]

(* C6: the resolver replaces the id of every proposed non-root node whose id
   is not a valid UUID by a fresh UUID that no other node of the resolved
   tree carries, so that every non-root node of the resolved tree carries a
   valid UUID. *)
C6_InvalidIdReplaced ==
    resolver.called =>
        LET proposed == AllIdsSeq(resolver.proposed)
            resolved == AllIdsSeq(resolver.result)
        IN  /\ Len(resolved) = Len(proposed)
            /\ \A i \in 2..Len(proposed) :
                  /\ resolved[i] \in UuidShaped
                  /\ proposed[i] \notin UuidShaped
                     => /\ resolved[i] \notin resolver.known
                        /\ \A j \in 1..Len(resolved) : j # i => resolved[j] # resolved[i]

(* C7: for every pair old -> new of the resolver's id mapping whose old id
   had a mirror row, after the resolution, and after the save of the
   resolved tree, there is no row under the old id and the row under the new
   id holds the extension columns (and title, description, status,
   created_at) of the old row. *)
C7_RowMigrated ==
    resolver.called =>
        \A i \in 1..Len(resolver.id_mapping) :
            LET old_id == resolver.id_mapping[i][1]
                new_id == resolver.id_mapping[i][2]
            IN  old_id \in DOMAIN resolver.before
                => /\ old_id \notin DOMAIN db
                   /\ new_id \in DOMAIN db
                   /\ new_id \notin DOMAIN resolver.before
                   /\ SameButUpdatedAt(db[new_id],
                                       [resolver.before[old_id] EXCEPT !.id = new_id])

C7_Witness ==
    /\ resolver.called
    /\ lastCall = "save_task_tree"
    /\ \E i \in 1..Len(resolver.id_mapping) :
          LET old_id == resolver.id_mapping[i][1]
              new_id == resolver.id_mapping[i][2]
          IN  /\ old_id \in DOMAIN resolver.before
              /\ resolver.before[old_id].estimated_hours = "5"
              /\ new_id \in DOMAIN db
              /\ db[new_id].estimated_hours = "5"
              /\ db[new_id].tags = JsonDumps(<<"x">>)

\* The step is update_task_metadata(x, metadata) with a metadata dict that
\* carries the column.
MetadataCarries(x, col) ==
    \E metadata \in Metadata :
        /\ IF col = "tags" THEN metadata.tags # NoTags ELSE metadata[col] # Missing
        /\ UpdateTaskMetadata(x, metadata)

\* The step is a process_user_input whose one operation updated the field of x.
UpdateCarries(x, col) ==
    /\ OneResult(results', lastCall', "update")
    /\ results'[1].task_id = x
    /\ col \in Range(results'[1].updated_fields)

(* C8: whatever the call, a row that is in the mirror before and after it
   keeps its created_at and keeps every column the incoming data did not
   carry: estimated_hours and tags unless update_task_metadata carried them,
   title, description and status unless an update operation or
   update_task_metadata carried them. *)
C8_MergeKeepsAbsentColumns ==
    [][\A x \in (DOMAIN db) \cap (DOMAIN db') :
          /\ db'[x].created_at = db[x].created_at
          /\ \A col \in {"estimated_hours", "tags"} :
                db'[x][col] = db[x][col] \/ MetadataCarries(x, col)
          /\ \A col \in {"title", "description", "status"} :
                db'[x][col] = db[x][col] \/ MetadataCarries(x, col) \/ UpdateCarries(x, col)]_vars

\* The calls that end with a full-tree sync on their own.
SyncCalls == {"save_task_tree", "sync_task_tree_to_db"}

(* C9: after the full-tree sync of save_task_tree (or sync_task_tree_to_db)
   on tree T, the row of every non-root node of T that had a row holds the
   title, description and status the node carries. *)
C9_SyncOverwritesCoreFields ==
    [][lastCall' \in SyncCalls
       => \A i \in 1..Len(NonRootNodes(tree')) :
             LET node == NonRootNodes(tree')[i]
             IN  (Truthy(node.id) /\ node.id \in DOMAIN db)
                 => \A col \in {"title", "description", "status"} :
                       node[col] # Missing => db'[node.id][col] = node[col]]_vars

(* C10: apply_operations hands back one result per operation, in order, and
   never raises: whatever the operations of the response, process_user_input
   returns with as many results as operations. *)
C10_OneResultPerOperation ==
    [][\A operations \in AnyResponses(tree) :
          ProcessUserInput(operations)
          => /\ lastCall' = "process_user_input"
             /\ Len(results') = Len(operations)
             /\ \A i \in 1..Len(operations) :
                   results'[i].operation = Lower(Get(operations[i].operation, ""))]_vars

\* How many subtasks lists of the tree hold a node with this id.
TimesChild(t, id) ==
    LET nodes == AllNodesSeq(t)
    IN  Cardinality({<<i, j>> \in (1..Len(nodes)) \X (1..Len(nodes)) :
                        j <= Len(nodes[i].subtasks) /\ nodes[i].subtasks[j].id = id})

(* C11: in every state reached from the root-only tree by add, update and
   delete operations and reset, the ids of the nodes of the tree are
   pairwise distinct and every non-root node is in exactly one subtasks
   list; a successful add reports an id that no node of the tree had before,
   whatever id the task object carried. *)
C11_IdsDistinct ==
    /\ [](/\ Cardinality(Range(AllIdsSeq(tree))) = Len(AllIdsSeq(tree))
          /\ \A i \in 1..Len(NonRootNodes(tree)) :
                TimesChild(tree, NonRootNodes(tree)[i].id) = 1)
    /\ [][OneResult(results', lastCall', "add")
          => /\ results'[1].task_id \notin Range(AllIdsSeq(tree))
             /\ results'[1].task_id \in Range(AllIdsSeq(tree'))
             /\ results'[1].task_id # LlmSlug]_vars

C11_Witness ==
    /\ OneResult(results, lastCall, "add")
    /\ Len(AllIdsSeq(tree)) = 4
    /\ \E i \in 1..Len(NonRootNodes(tree)) :
          /\ NonRootNodes(tree)[i].title = "A"
          /\ NonRootNodes(tree)[i].subtasks # <<>>

\* The progress values of the subtasks a stored task lists.
SubtaskProgress(id) ==
    [i \in 1..Len(taskFiles[id].subtasks) |-> taskFiles[taskFiles[id].subtasks[i]].progress]

\* The last call was update_task_status or update_task_progress on a stored
\* task that has a parent.
ChildUpdated ==
    /\ lastCall \in {"update_task_status", "update_task_progress"}
    /\ updated_tasks # <<>>
    /\ Truthy(taskFiles[updated_tasks[1]].parent_id)

\* A cortexpropel.models Task over sub_tasks with these progress values.
NestedTask(progresses) ==
    [progress |-> 0, status |-> "todo",
     sub_tasks |-> [i \in 1..Len(progresses) |->
                       [progress |-> progresses[i], status |-> "todo", sub_tasks |-> <<>>]]]

(* C12: after update_task_status or update_task_progress on a child (parent
   auto-update on), the parent's progress is the truncated integer mean of
   the progress of its direct children; children with progress 0, 50 and 100
   give the parent progress 50 and status in_progress; Task.update_progress
   over sub_tasks with the same progress values gives the same progress, and
   in_progress for 0, 50, 100. *)
C12_RollupArithmetic ==
    ChildUpdated =>
        LET parent_id == taskFiles[updated_tasks[1]].parent_id
            progresses == SubtaskProgress(parent_id)
            nested == NestedUpdateProgress(NestedTask(progresses))
        IN  /\ taskFiles[parent_id].progress = Sum(progresses) \div Len(progresses)
            /\ nested.progress = Sum(progresses) \div Len(progresses)
            /\ progresses = <<0, 50, 100>>
               => /\ taskFiles[parent_id].progress = 50
                  /\ taskFiles[parent_id].status = "in_progress"
                  /\ nested.status = "in_progress"

(* C13: after any sequence of update_task_status, update_task_progress and
   bulk_update_status calls, with any status and progress arguments, every
   stored task has 0 <= progress <= 100 and every stored task with progress
   100 has status completed. *)
C13_ProgressInRangeAndCompleted ==
    \A id \in DOMAIN taskFiles :
        /\ 0 <= taskFiles[id].progress
        /\ taskFiles[id].progress <= 100
        /\ taskFiles[id].progress = 100 => taskFiles[id].status = "completed"

(* C14: a proposed non-root node whose id is UUID-shaped and known neither to
   the tree nor to the mirror is classified as new and keeps that id through
   the resolver: the resolved node carries the proposed id. *)
C14_NewUuidKept ==
    resolver.called =>
        LET proposed == AllIdsSeq(resolver.proposed)
            resolved == AllIdsSeq(resolver.result)
        IN  /\ Len(resolved) = Len(proposed)
            /\ \A i \in 2..Len(proposed) :
                  (proposed[i] \in UuidShaped /\ proposed[i] \notin resolver.known)
                  => /\ proposed[i] \in IdentifyNewTasks(tree, resolver.proposed, resolver.before)
                     /\ resolved[i] = proposed[i]

(* C15: the resolver gives a fresh UUID to every proposed non-root node whose
   id is empty. *)
C15_EmptyIdReplaced ==
    resolver.called =>
        LET proposed == AllIdsSeq(resolver.proposed)
            resolved == AllIdsSeq(resolver.result)
        IN  /\ Len(resolved) = Len(proposed)
            /\ \A i \in 2..Len(proposed) :
                  ~Truthy(proposed[i]) => resolved[i] \in UuidShaped

(* C16: an update that names a node of the tree and supplies a status outside
   the vocabulary fails and is rejected as a whole: the operation's result is
   a failure and the tree, title and description of the named node included,
   stays as it was. *)
C16_InvalidStatusRejected ==
    [][\A op \in StatusOps(tree) :
          (ProcessUserInput(<<op>>) /\ op.task.status \notin Statuses)
          => (/\ Len(results') = 1
              /\ ~results'[1].success
              /\ tree' = tree)]_vars

\* The operations that name a parent or a task that is in no tree.
NotFoundOps(tr) ==
    {op \in CrudOps(tr) : IF op.operation = "add" THEN op.parent_id = "ghost"
                          ELSE op.task.id = "ghost"}

NotFoundErrors == {"Parent task not found", "Task not found"}

(* C17: an add whose parent_id matches no node fails with "Parent task not
   found", an update or delete whose id matches no node fails with "Task not
   found"; a call all of whose operations failed that way leaves the tree as
   it was and the mirror as the closing save of that unchanged tree leaves
   it: with the rows it had, each, updated_at apart, as it was. *)
C17_NotFoundChangesNothing ==
    [][/\ \A op \in NotFoundOps(tree) :
              ProcessUserInput(<<op>>)
              => /\ Len(results') = 1
                 /\ ~results'[1].success
                 /\ results'[1].error = IF op.operation = "add"
                                         THEN "Parent task not found"
                                         ELSE "Task not found"
       /\ (/\ lastCall' = "process_user_input"
           /\ results' # <<>>
           /\ \A i \in 1..Len(results') : results'[i].error \in NotFoundErrors)
          => /\ tree' = tree
             /\ nextUuid' = nextUuid
             /\ db' = SaveTaskTree(db, tree, now')
             /\ DOMAIN db' = DOMAIN db
             /\ \A x \in DOMAIN db : SameButUpdatedAt(db[x], db'[x])]_vars

C17_Witness ==
    /\ lastCall = "process_user_input"
    /\ Len(results) = 2
    /\ results[1].error = "Parent task not found"
    /\ results[2].error = "Task not found"
    /\ tree.subtasks # <<>>
    /\ Cardinality(NonRootRows(db)) = Len(NonRootNodes(tree))

(* C18: reset_task_tree leaves the tree as a single node "root" without
   subtasks and the mirror without a non-root row; an add under the root that
   follows it succeeds, leaves the root with exactly one child, and leaves the
   mirror with exactly one row more than it had. *)
C18_ResetThenAdd ==
    /\ [](lastCall = "reset_task_tree"
            => /\ tree.id = "root"
               /\ tree.subtasks = <<>>
               /\ NonRootRows(db) = {})
    /\ [][\A op \in AddOps(tree) :
              (/\ lastCall = "reset_task_tree"
               /\ op.parent_id \in {"root", Missing}
               /\ ProcessUserInput(<<op>>))
              => /\ OneResult(results', lastCall', "add")
                 /\ Len(tree'.subtasks) = 1
                 /\ tree'.subtasks[1].subtasks = <<>>
                 /\ DOMAIN db \subseteq DOMAIN db'
                 /\ Cardinality((DOMAIN db') \ (DOMAIN db)) = 1]_vars

\* The text between the first opening and the last closing brace.
Between(content) == SubSeq(content, Index(content, "{"), RIndex(content, "}"))

\* A response text with no brace pair, with no JSON between its outermost
\* braces, or with a JSON object that has no "operations" key.
Malformed(content) ==
    \/ Index(content, "{") = 0
    \/ RIndex(content, "}") = 0
    \/ ~IsJson(Between(content))
    \/ \A i \in 1..Len(Between(content)) : Between(content)[i] # "ops"

(* C19: for every malformed response text process_task_input returns an empty
   operation list and a non-empty message, and the process_user_input call
   that read it leaves the tree as it was and the mirror with the rows it had,
   each, updated_at apart, as it was. *)
C19_MalformedResponseIsSoftFailure ==
    /\ [](llm.called /\ Malformed(llm.content)
            => /\ llm.result.operations = <<>>
               /\ llm.result.message \notin {"", Missing, None})
    /\ [][llm'.called /\ Malformed(llm'.content)
            => /\ tree' = tree
               /\ results' = <<>>
               /\ DOMAIN db' = DOMAIN db
               /\ \A x \in DOMAIN db : SameButUpdatedAt(db[x], db'[x])]_vars

\* The stored tasks a stored task lists as its subtasks.
SubtasksOf(id) ==
    [i \in 1..Len(taskFiles[id].subtasks) |-> taskFiles[taskFiles[id].subtasks[i]]]

\* The stored task has the progress and the status its direct subtasks give it:
\* the truncated mean; completed if all are completed, else in_progress if one
\* is in_progress or has progress, else pending if all are pending.
IsRollupOfSubtasks(id) ==
    LET subtasks == SubtasksOf(id)
        all_completed == \A i \in 1..Len(subtasks) : subtasks[i].status = "completed"
        any_started == \E i \in 1..Len(subtasks) :
                          subtasks[i].status = "in_progress" \/ subtasks[i].progress # 0
        all_pending == \A i \in 1..Len(subtasks) : subtasks[i].status = "pending"
    IN  /\ taskFiles[id].progress = Sum(SubtaskProgress(id)) \div Len(subtasks)
        /\ all_completed => taskFiles[id].status = "completed"
        /\ (~all_completed /\ any_started) => taskFiles[id].status = "in_progress"
        /\ (~all_completed /\ ~any_started /\ all_pending) => taskFiles[id].status = "pending"

(* C20: after update_task_status or update_task_progress (auto-update on) on
   a task whose parent has a parent, the parent and the grandparent each have
   the progress and the status their direct subtasks give them. *)
C20_RollupReachesAncestors ==
    ChildUpdated =>
        LET parent_id == taskFiles[updated_tasks[1]].parent_id
            grandparent_id == taskFiles[parent_id].parent_id
        IN  Truthy(grandparent_id)
            => /\ IsRollupOfSubtasks(parent_id)
               /\ IsRollupOfSubtasks(grandparent_id)

(* C21: after update_task_status on a task that has a parent (parent
   auto-update on), the parent is completed if all its subtasks are
   completed, else in_progress if a subtask is in_progress or has progress,
   else pending if all its subtasks are pending, whatever status the parent
   had before. *)
C21_RollupStatusRule ==
    (ChildUpdated /\ lastCall = "update_task_status") =>
        LET parent_id == taskFiles[updated_tasks[1]].parent_id
            subtasks == SubtasksOf(parent_id)
            all_completed == \A i \in 1..Len(subtasks) : subtasks[i].status = "completed"
            any_started == \E i \in 1..Len(subtasks) :
                              subtasks[i].status = "in_progress" \/ subtasks[i].progress # 0
            all_pending == \A i \in 1..Len(subtasks) : subtasks[i].status = "pending"
        IN  taskFiles[parent_id].status =
                IF all_completed THEN "completed"
                ELSE IF any_started THEN "in_progress"
                ELSE IF all_pending THEN "pending"
                ELSE taskFiles[parent_id].status

RECURSIVE Descendants(_, _, _)
\* The ids of the transitive subtasks of a stored task, at most k levels down.
Descendants(st, task_id, k) ==
    IF k = 0 \/ task_id \notin DOMAIN st THEN {}
    ELSE LET direct == Range(st[task_id].subtask_ids)
         IN  direct \cup UNION {Descendants(st, d, k - 1) : d \in direct}

(* C22: delete_task on a stored task removes the task and every transitive
   subtask of it from the store and removes the task from its parent's
   subtask_ids; afterwards no stored task has a parent_id that names a
   deleted task. *)
C22_DeleteCascades ==
    [][\A task_id \in DOMAIN store :
          DeleteStored(task_id)
          => LET deleted == {task_id} \cup Descendants(store, task_id, Cardinality(DOMAIN store))
             IN  /\ DOMAIN store' = (DOMAIN store) \ deleted
                 /\ \A x \in DOMAIN store' :
                       /\ task_id \notin Range(store'[x].subtask_ids)
                       /\ store'[x].parent_id \notin deleted]_vars

(* C23: after any sequence of create_task, update_task and delete_task calls
   every stored task is stored under its own id, its parent_id is None or
   the id of a stored task that lists it in subtask_ids, and every id in its
   subtask_ids is the id of a stored task whose parent_id names it. *)
C23_LinksAgree ==
    \A x \in DOMAIN store :
        /\ store[x].id = x
        /\ store[x].parent_id # None
           => /\ store[x].parent_id \in DOMAIN store
              /\ x \in Range(store[store[x].parent_id].subtask_ids)
        /\ \A i \in 1..Len(store[x].subtask_ids) :
              /\ store[x].subtask_ids[i] \in DOMAIN store
              /\ store[store[x].subtask_ids[i]].parent_id = x

\* The process has returned from process_user_input with one successful add.
AddedOne(p) ==
    /\ procs[p].pc = "done"
    /\ Len(procs[p].results) = 1
    /\ procs[p].results[1].operation = "add"
    /\ procs[p].results[1].success

(* C24: with no lock, the save of a process writes the tree it loaded and
   changed: every node that another process has put in the file since, and
   that the saving process does not have, is gone from the file after the
   save, while its mirror row stays; so two processes can both report a
   successful add and leave a file that holds the node of one of them only. *)
C24_LostUpdate ==
    [][\A p \in Procs :
          SaveStep(p)
          => /\ tree' = procs[p].current_tree
             /\ \A n \in ExtractAllTaskIds(tree) \ ExtractAllTaskIds(procs[p].current_tree) :
                   /\ n \notin ExtractAllTaskIds(tree')
                   /\ n \in DOMAIN db => n \in DOMAIN db']_vars

C24_Witness ==
    /\ AddedOne(1)
    /\ AddedOne(2)
    /\ Len(tree.subtasks) = 1
    /\ tree.subtasks[1].id = procs[2].results[1].task_id
    /\ procs[1].results[1].task_id \notin ExtractAllTaskIds(tree)
    /\ procs[1].results[1].task_id \in DOMAIN db
    /\ procs[2].results[1].task_id \in DOMAIN db

(* C25: no update operation changes the status of a node that is completed
   to another status, and a node created by an add operation starts in
   status pending. *)
C25_StatusStateMachine ==
    [][/\ OneResult(results', lastCall', "update")
          => LET path == FindPath(tree, results'[1].task_id)
             IN  NodeAt(tree, path).status = "completed"
                 => NodeAt(tree', path).status = "completed"
       /\ OneResult(results', lastCall', "add")
          => LET path == FindPath(tree', results'[1].task_id)
             IN  NodeAt(tree', path).status = "pending"]_vars

(* C26: a full-tree sync (sync_task_tree_to_db, or the sync that closes
   save_task_tree) writes no mirror row for the root: it neither creates a
   row with id "root" nor changes one that is there. *)
C26_SyncSkipsRoot ==
    [][lastCall' \in SyncCalls
       => /\ "root" \in DOMAIN db' => "root" \in DOMAIN db
          /\ "root" \in DOMAIN db => db'["root"] = db["root"]]_vars

(* C27: process_user_input returns no result (the updated tree and the
   applied operations) when the write of the tree file failed or a write of
   the mirror failed. *)
C27_WriteFailurePropagates ==
    (lastCall = "process_user_input" /\ io.called /\ (io.file_failed \/ io.mirror_failed))
        => io.returned # "result"

(* C28: a load_task_tree that finds the tree file unparseable or missing, and
   whose write does not fail, returns without raising a fresh root-only tree
   (id "root", no subtasks) and leaves the file holding it; a
   process_user_input that finds the file so runs its operations on that
   root-only tree, so the file it leaves holds nothing but what they added. *)
C28_HealByReset ==
    [][(fileState \in {"corrupt", "missing"}
        /\ lastCall' \in {"load_task_tree", "process_user_input"}
        /\ ~io'.file_failed)
       => /\ io'.returned = "result"
          /\ io'.current_tree = InitializeTaskTree(now')
          /\ io'.current_tree.id = "root"
          /\ io'.current_tree.subtasks = <<>>
          /\ fileState' = "ok"
          /\ lastCall' = "load_task_tree" => tree' = io'.current_tree
          /\ lastCall' = "process_user_input"
                => /\ tree'.id = "root"
                   /\ Len(tree'.subtasks) <= Len(results')
                   /\ \A n \in Range(NonRootNodes(tree')) :
                          "created_at" \in DOMAIN n /\ n.created_at = now']_vars

C28_Witness ==
    /\ lastCall = "load_task_tree"
    /\ io.called
    /\ io.found = "corrupt"
    /\ ~io.file_failed
    /\ fileState = "ok"
    /\ tree.id = "root"
    /\ tree.subtasks = <<>>
    /\ DOMAIN db # {}

(* C29: update_task_status, called without the two auto-update arguments,
   completes the stored subtasks of a task it completes and gives the parent
   of the task the mean progress of its subtasks; bulk_update_status changes
   the stored tasks it lists as update_task_status alone would, changes no
   task it does not list (so no unlisted parent or subtask of a listed one),
   and stores nothing for a listed id that is not stored. *)
C29_BulkOptsOut ==
    [][/\ (lastCall' = "update_task_status" /\ now' = now + 1)
          => LET task_id == updated_tasks'[1]
                 parent_id == taskFiles[task_id].parent_id
             IN  /\ (\E progress \in ProgressArgs :
                        taskFiles' = UpdateStoredTask(taskFiles, task_id, "completed",
                                                      progress, TRUE, TRUE).tasks)
                    => \A i \in 1..Len(taskFiles[task_id].subtasks) :
                          taskFiles'[taskFiles[task_id].subtasks[i]].status = "completed"
                 /\ Truthy(parent_id)
                    => /\ parent_id \in Range(updated_tasks')
                       /\ taskFiles'[parent_id].progress
                             = Sum([i \in 1..Len(taskFiles[parent_id].subtasks) |->
                                      taskFiles'[taskFiles[parent_id].subtasks[i]].progress])
                                  \div Len(taskFiles[parent_id].subtasks)
       /\ (lastCall' = "bulk_update_status" /\ now' = now + 1)
          => /\ DOMAIN taskFiles' = DOMAIN taskFiles
             /\ \E task_ids \in BulkIds :
                   Range(updated_tasks') = Range(task_ids) \cap DOMAIN taskFiles
             /\ \E status \in StatusArgs, progress \in ProgressArgs :
                   \A id \in DOMAIN taskFiles :
                      taskFiles'[id] = IF id \in Range(updated_tasks')
                                       THEN ApplyStatusAndProgress(taskFiles[id], status, progress)
                                       ELSE taskFiles[id]]_vars

C29_Witness ==
    /\ lastCall = "bulk_update_status"
    /\ Range(updated_tasks) = {"a", "p"}
    /\ taskFiles["a"].status = "completed"
    /\ taskFiles["p"].status = "completed"
    /\ taskFiles["b"].status = "pending"
    /\ taskFiles["c"].status = "pending"
    /\ taskFiles["g"].status = "pending"
    /\ taskFiles["g"].progress = 0

(* C30: in every interleaving of schedule_task calls, the scheduler loop and
   execution-complete callbacks, running_tasks never holds more than
   max_concurrent_tasks ids, no id is both in the queue and in running_tasks,
   and no id is in the queue twice. *)
C30_QueueAndRunningConsistent ==
    /\ Cardinality(running_tasks) <= max_concurrent_tasks
    /\ \A i \in 1..Len(task_queue) : task_queue[i].id \notin running_tasks
    /\ \A i, j \in 1..Len(task_queue) : task_queue[i].id = task_queue[j].id => i = j
====
